---- MODULE Spec2Model ----
(***************************************************************************)
(* A model of the page-organised key-value store of src/main.go (the       *)
(* complete version of the file, lines 343-1200) and of the write-ahead    *)
(* log of src/wal.go: the on-disk header, the in-page record layout, the   *)
(* page cache, the key -> page index and the operations NewStorage, Put,   *)
(* Get, Delete and Close; the log entry codec and the operations NewWAL,   *)
(* Append, Sync, ReadAll, Close and Truncate.                              *)
(*                                                                         *)
(* Bytes are the numbers 0..255.  Keys, values, page buffers and the files *)
(* are sequences of bytes.  A Go offset o (0-based) is the element o+1 of  *)
(* the TLA+ sequence.  The page size is scaled down from 4096 so that a    *)
(* page fills up after two or three records.  A uint64 or uint32 whose     *)
(* value may leave the range of the model's integers (an LSN, an entry     *)
(* size, a checksum) is kept as its little-endian bytes.                   *)
(***************************************************************************)
EXTENDS Integers, Sequences, FiniteSets, TLC

VARIABLES
    file,        \* the bytes of the database file on disk
    opened,      \* TRUE while a *Storage returned by NewStorage is in use
    pageIndex,   \* Storage.pageIndex: key -> page id
    pages,       \* Storage.pages: page id -> Page (the cache)
    nextPageID,  \* Storage.nextPageID
    totalPages,  \* Storage.totalPages
    ret,         \* the call that ran last and what it returned
    shadow,      \* history: the map built by the session's successful Puts and Deletes,
                 \*   kept while sessPutsOk holds
    sessFresh,   \* history: the session was opened on an empty file
    sessPutsOk,  \* history: no Put of the session has returned an error
    gone,        \* history: the keys whose latest successful Put or Delete, over
                 \*   all sessions, is a Delete
    hist,        \* history: the contents the store has had, one after every Put
                 \*   and Delete, in the behaviours that begin with a recorded
                 \*   content (SpecCrash); empty where nothing is recorded
    budget,      \* the number of calls (other than Get) still offered
    walFile,     \* the bytes of the log file on disk
    walOpen,     \* TRUE while a *WAL returned by NewWAL is in use
    walReadable, \* WAL.file was opened for reading too (O_RDWR)
    lastLSN,     \* WAL.lastLSN, as its 8 little-endian bytes
    walRet,      \* the call on the log that ran last and what it returned
    walAppended, \* history: the entries of the successful Appends since the log
                 \*   file was last empty
    walClean,    \* history: no Append has failed since the log file was last empty
    walSynced,   \* history: Sync has returned since the last Append
    walSessBase  \* history: Len(walAppended) when the session of the log began

storeVars == <<file, opened, pageIndex, pages, nextPageID, totalPages, ret,
               shadow, sessFresh, sessPutsOk, gone, hist>>

walVars == <<walFile, walOpen, walReadable, lastLSN, walRet,
             walAppended, walClean, walSynced, walSessBase>>

vars == <<storeVars, budget, walVars>>

\* ------------------------------------------------------------------ bounds
\* Size of a page in bytes (4096 in the source; scaled).  With one-byte keys
\* a record with the empty value takes 5 bytes and one with BigValue 13: four
\* small records fit a page, a small and a big one fit, two big ones do not.
PageSize == 24
\* Put is not offered when it would allocate a page with this id or above.
MaxPages == 2
\* A behaviour of Spec has at most this many NewStorage, Put, Delete and Close
\* calls (and any number of Gets).
MaxCalls == 7
\* A behaviour of SpecDeep, which puts only the empty value, has at most this
\* many.
DeepCalls == 10
\* A behaviour of SpecFaults, in which file writes may fail, the process may
\* end without Close and the header may change between sessions, has at most
\* this many calls.
FaultCalls == 6
\* A behaviour of SpecEmpty, whose keys include the zero-length key, has at
\* most this many calls.
EmptyCalls == 7
\* A behaviour of SpecWal, the log on its own, has at most this many calls.
WalCalls == 5
\* A file of SpecLog, the log read back from well-formed files, holds at most
\* this many entries.
MaxLogEntries == 2

\* ------------------------------------------------------- program constants
HeaderSize == 64
MagicNumber == 1297695810
Version == 1

\* ------------------------------------------------------------------ inputs
RECURSIVE Rep(_, _)
Rep(b, n) == IF n <= 0 THEN <<>> ELSE <<b>> \o Rep(b, n - 1)

\* With a one-byte key this value makes a record of PageSize bytes, two more
\* than an empty page can take.
LongValue == Rep(9, PageSize - 5)

BigValue == Rep(7, 8)

Keys == {<<1>>, <<2>>}
Values == {<<>>, BigValue, LongValue}

\* ------------------------------------------------------------ binary codec
\* binary.LittleEndian.Uint16(d[o : o+2])
U16(d, o) == d[o + 1] + 256 * d[o + 2]
\* binary.LittleEndian.PutUint16(_, v) with v already converted to uint16
PutU16(v) == <<v % 256, (v \div 256) % 256>>
\* binary.LittleEndian.Uint32(d[o : o+4])
U32(d, o) == d[o + 1] + 256 * d[o + 2] + 65536 * d[o + 3] + 16777216 * d[o + 4]
\* binary.LittleEndian.PutUint32(_, v)
PutU32(v) ==
    <<v % 256, (v \div 256) % 256, (v \div 65536) % 256, (v \div 16777216) % 256>>

\* Go's d[a:b]
Slice(d, a, b) == SubSeq(d, a + 1, b)
Zeros(n) == [i \in 1..n |-> 0]

\* ------------------------------------------------------------ record codec
serializeRecord(key, value) ==
    PutU16(Len(key) % 65536) \o PutU16(Len(value) % 65536) \o key \o value

deserializeRecord(data, offset) ==
    IF offset + 4 > Len(data)
    THEN [key |-> <<>>, value |-> <<>>, bytesRead |-> 0, err |-> TRUE]
    ELSE LET keyLen == U16(data, offset)
             valueLen == U16(data, offset + 2)
             totalLen == 4 + keyLen + valueLen
         IN  IF offset + totalLen > Len(data)
             THEN [key |-> <<>>, value |-> <<>>, bytesRead |-> 0, err |-> TRUE]
             ELSE [key |-> Slice(data, offset + 4, offset + 4 + keyLen),
                   value |-> Slice(data, offset + 4 + keyLen, offset + totalLen),
                   bytesRead |-> totalLen, err |-> FALSE]

\* -------------------------------------------------------------------- page
\* The loop of addRecord that finds where the records end; off = -1 stands
\* for the "corrupted page" return inside the loop.
RECURSIVE RecordsEnd(_, _, _, _)
RecordsEnd(data, count, i, offset) ==
    IF i >= count THEN offset
    ELSE IF offset + 4 > Len(data) THEN -1
    ELSE RecordsEnd(data, count, i + 1,
                    offset + 4 + U16(data, offset) + U16(data, offset + 2))

\* An addRecord that does not compare the end of the record with the size of
\* the buffer: the bytes that have room are written and the record is counted
addRecordUnchecked(p, key, value) ==
    LET record == serializeRecord(key, value)
        offset == RecordsEnd(p.Data, p.RecordCount, 0, 2)
    IN  IF offset = -1 THEN [page |-> p, err |-> "corrupted page"]
        ELSE [page |-> [p EXCEPT
                  !.Data = [i \in 1..Len(p.Data) |->
                               IF i > offset /\ i <= offset + Len(record)
                               THEN record[i - offset] ELSE p.Data[i]],
                  !.RecordCount = (p.RecordCount + 1) % 65536,
                  !.IsDirty = TRUE],
              err |-> "nil"]

addRecord(p, key, value) ==
    LET record == serializeRecord(key, value)
        offset == RecordsEnd(p.Data, p.RecordCount, 0, 2)
    IN  IF offset = -1 THEN [page |-> p, err |-> "corrupted page"]
        ELSE IF offset + Len(record) > Len(p.Data)
        THEN [page |-> p, err |-> "page full"]
        ELSE [page |-> [p EXCEPT
                  !.Data = [i \in 1..Len(p.Data) |->
                               IF i > offset /\ i <= offset + Len(record)
                               THEN record[i - offset] ELSE p.Data[i]],
                  !.RecordCount = (p.RecordCount + 1) % 65536,
                  !.IsDirty = TRUE],
              err |-> "nil"]

RECURSIVE FindLoop(_, _, _, _)
FindLoop(p, key, i, offset) ==
    IF i >= p.RecordCount THEN [value |-> <<>>, found |-> FALSE]
    ELSE LET r == deserializeRecord(p.Data, offset)
         IN  IF r.err THEN [value |-> <<>>, found |-> FALSE]
             ELSE IF r.key = key THEN [value |-> r.value, found |-> TRUE]
             ELSE FindLoop(p, key, i + 1, offset + r.bytesRead)

\* A findRecord that reports a key it did not find as found, with no value
findRecordLenient(p, key) == [value |-> FindLoop(p, key, 0, 2).value, found |-> TRUE]

findRecord(p, key) == FindLoop(p, key, 0, 2)

\* A deleteRecord that lowers the record count but moves no bytes
ShiftLeftNone(data, offset, bytesRead) == data

\* copy(p.Data[offset:], p.Data[nextOffset:]): the bytes after the record
\* move down; the last bytesRead bytes of the buffer keep their old content.
ShiftLeft(data, offset, bytesRead) ==
    [i \in 1..Len(data) |->
        IF i <= offset THEN data[i]
        ELSE IF i + bytesRead <= Len(data) THEN data[i + bytesRead]
        ELSE data[i]]

RECURSIVE DeleteLoop(_, _, _, _)
DeleteLoop(p, key, i, offset) ==
    IF i >= p.RecordCount THEN [page |-> p, ok |-> FALSE]
    ELSE LET r == deserializeRecord(p.Data, offset)
         IN  IF r.err THEN [page |-> p, ok |-> FALSE]
             ELSE IF r.key = key
             THEN [page |-> [p EXCEPT
                       !.Data = ShiftLeft(p.Data, offset, r.bytesRead),
                       !.RecordCount = (p.RecordCount + 65535) % 65536,
                       !.IsDirty = TRUE],
                   ok |-> TRUE]
             ELSE DeleteLoop(p, key, i + 1, offset + r.bytesRead)

deleteRecord(p, key) == DeleteLoop(p, key, 0, 2)

\* -------------------------------------------------------------------- maps
EmptyMap == [x \in {} |-> 0]
MapPut(m, k, v) == [x \in (DOMAIN m) \cup {k} |-> IF x = k THEN v ELSE m[x]]
MapDel(m, k) == [x \in (DOMAIN m) \ {k} |-> m[x]]

\* -------------------------------------------------------------------- file
\* os.File.ReadAt(buf of n bytes, off) fails when fewer than n bytes are there
CanReadAt(f, n, off) == off + n <= Len(f)
\* os.File.WriteAt(data, off): a write past the end zero-fills the gap
WriteAt(f, data, off) ==
    LET base == IF Len(f) < off THEN f \o Zeros(off - Len(f)) ELSE f
        n == IF Len(base) > off + Len(data) THEN Len(base) ELSE off + Len(data)
    IN  [i \in 1..n |-> IF i > off /\ i <= off + Len(data)
                        THEN data[i - off] ELSE base[i]]

\* A writeHeader that puts the page size where the version belongs and the
\* version where the page size belongs
writeHeaderSwapped(f, header) ==
    WriteAt(f,
            PutU32(header.Magic) \o PutU32(header.PageSize) \o PutU32(header.Version)
              \o PutU32(header.TotalPages) \o PutU32(header.NextPageID)
              \o Zeros(HeaderSize - 20),
            0)

writeHeader(f, header) ==
    WriteAt(f,
            PutU32(header.Magic) \o PutU32(header.Version) \o PutU32(header.PageSize)
              \o PutU32(header.TotalPages) \o PutU32(header.NextPageID)
              \o Zeros(HeaderSize - 20),
            0)

\* page ids stay below MaxPages here, far from the uint32 wrap-around
pageOffset(pageID) == HeaderSize + pageID * PageSize

\* loadPage: the cached page, or the page read from the file and cached
loadPage(pgs, f, pageID) ==
    IF pageID \in DOMAIN pgs
    THEN [pages |-> pgs, page |-> pgs[pageID], err |-> FALSE]
    ELSE IF ~CanReadAt(f, PageSize, pageOffset(pageID))
    THEN [pages |-> pgs, page |-> <<>>, err |-> TRUE]
    ELSE LET pageData == Slice(f, pageOffset(pageID), pageOffset(pageID) + PageSize)
             page == [ID |-> pageID, Data |-> pageData, IsDirty |-> FALSE,
                      RecordCount |-> U16(pageData, 0)]
         IN  [pages |-> MapPut(pgs, pageID, page), page |-> page, err |-> FALSE]

\* writePage: the record count goes into the buffer, the buffer into the file
writePage(f, page) ==
    LET data == [i \in 1..Len(page.Data) |->
                    IF i <= 2 THEN PutU16(page.RecordCount)[i] ELSE page.Data[i]]
    IN  [file |-> WriteAt(f, data, pageOffset(page.ID)),
         page |-> [page EXCEPT !.Data = data, !.IsDirty = FALSE]]

allocateNewPage(pgs, nextId, total) ==
    LET page == [ID |-> nextId, Data |-> Zeros(PageSize), IsDirty |-> TRUE,
                 RecordCount |-> 0]
    IN  [pages |-> MapPut(pgs, nextId, page), page |-> page,
         nextPageID |-> nextId + 1, totalPages |-> total + 1]

\* --------------------------------------------------------- header and index
\* A loadHeader that compares the page size before the version
loadHeaderSizeFirst(f) ==
    IF ~CanReadAt(f, HeaderSize, 0)
    THEN [err |-> "read header", nextPageID |-> 0, totalPages |-> 0]
    ELSE IF U32(f, 0) # MagicNumber
    THEN [err |-> "magic number mismatch", nextPageID |-> 0, totalPages |-> 0]
    ELSE IF U32(f, 8) # PageSize
    THEN [err |-> "page size mismatch", nextPageID |-> 0, totalPages |-> 0]
    ELSE IF U32(f, 4) # Version
    THEN [err |-> "incorrect version", nextPageID |-> 0, totalPages |-> 0]
    ELSE [err |-> "nil", nextPageID |-> U32(f, 16), totalPages |-> U32(f, 12)]

\* loadHeader: the error it returns, or "nil" with the two counters
loadHeader(f) ==
    IF ~CanReadAt(f, HeaderSize, 0)
    THEN [err |-> "read header", nextPageID |-> 0, totalPages |-> 0]
    ELSE IF U32(f, 0) # MagicNumber
    THEN [err |-> "magic number mismatch", nextPageID |-> 0, totalPages |-> 0]
    ELSE IF U32(f, 4) # Version
    THEN [err |-> "incorrect version", nextPageID |-> 0, totalPages |-> 0]
    ELSE IF U32(f, 8) # PageSize
    THEN [err |-> "page size mismatch", nextPageID |-> 0, totalPages |-> 0]
    ELSE [err |-> "nil", nextPageID |-> U32(f, 16), totalPages |-> U32(f, 12)]

\* The value length that buildIndex reads for the record at offset: the
\* source reads it from page.Data[offset : offset+2], the key length's bytes.
IndexValueLen(data, offset) == U16(data, offset)

\* The inner loop of buildIndex over the records of one page
RECURSIVE IndexPage(_, _, _, _)
IndexPage(idx, page, i, offset) ==
    IF i >= page.RecordCount THEN idx
    ELSE IF offset + 4 > Len(page.Data) THEN idx
    ELSE LET keyLen == U16(page.Data, offset)
             valueLen == IndexValueLen(page.Data, offset)
             o == offset + 4
         IN  IF o + keyLen + valueLen > Len(page.Data) THEN idx
             ELSE IndexPage(MapPut(idx, Slice(page.Data, o, o + keyLen), page.ID),
                            page, i + 1, o + keyLen + valueLen)

\* The outer loop of buildIndex over the pages 0 .. totalPages-1
RECURSIVE BuildLoop(_, _, _, _, _)
BuildLoop(idx, pgs, f, pageID, total) ==
    IF pageID >= total THEN [pageIndex |-> idx, pages |-> pgs, err |-> "nil"]
    ELSE LET lp == loadPage(pgs, f, pageID)
         IN  IF lp.err THEN [pageIndex |-> idx, pages |-> pgs, err |-> "load page"]
             ELSE BuildLoop(IndexPage(idx, lp.page, 0, 2), lp.pages, f,
                            pageID + 1, total)

buildIndex(f, total) == BuildLoop(EmptyMap, EmptyMap, f, 0, total)

\* --------------------------------------------------------------------- Put
\* The loop of Put that estimates the used space of a page
RECURSIVE UsedSpace(_, _, _, _)
UsedSpace(data, count, i, usedSpace) ==
    IF i >= count THEN usedSpace
    ELSE IF usedSpace + 4 > Len(data) THEN usedSpace
    ELSE UsedSpace(data, count, i + 1,
                   usedSpace + 4 + U16(data, usedSpace) + U16(data, usedSpace + 2))

\* A loop of Put that takes the last page with room instead of the first
RECURSIVE FindFitLast(_, _, _, _, _)
FindFitLast(pgs, f, pageID, total, recordSize) ==
    IF pageID >= total THEN [pages |-> pgs, target |-> -1]
    ELSE LET lp == loadPage(pgs, f, pageID)
             rest == FindFitLast(IF lp.err THEN pgs ELSE lp.pages, f, pageID + 1, total,
                                 recordSize)
         IN  IF rest.target # -1 THEN rest
             ELSE IF ~lp.err
                     /\ UsedSpace(lp.page.Data, lp.page.RecordCount, 0, 2) + recordSize
                           <= Len(lp.page.Data)
             THEN [pages |-> rest.pages, target |-> pageID]
             ELSE rest

\* The first-fit loop of Put over the pages pageID .. total-1; target -1: none
RECURSIVE FindFit(_, _, _, _, _)
FindFit(pgs, f, pageID, total, recordSize) ==
    IF pageID >= total THEN [pages |-> pgs, target |-> -1]
    ELSE LET lp == loadPage(pgs, f, pageID)
         IN  IF lp.err THEN FindFit(pgs, f, pageID + 1, total, recordSize)
             ELSE IF UsedSpace(lp.page.Data, lp.page.RecordCount, 0, 2) + recordSize
                       <= Len(lp.page.Data)
             THEN [pages |-> lp.pages, target |-> pageID]
             ELSE FindFit(lp.pages, f, pageID + 1, total, recordSize)

\* Put on a key the index holds: the old record is removed from its page and
\* the new one is added to the same page
PutExisting(idx, pgs, f, nextId, total, key, value) ==
    LET lp == loadPage(pgs, f, idx[key])
    IN  IF lp.err
        THEN [pageIndex |-> idx, pages |-> pgs, nextPageID |-> nextId,
              totalPages |-> total, err |-> "read page"]
        ELSE LET d == deleteRecord(lp.page, key)
                 a == addRecord(d.page, key, value)
             IN  [pageIndex |-> idx,
                  pages |-> [lp.pages EXCEPT ![idx[key]] = a.page],
                  nextPageID |-> nextId, totalPages |-> total, err |-> a.err]

\* Put on a key the index does not hold: first fit, else a new page
PutNew(idx, pgs, f, nextId, total, key, value) ==
    LET fit == FindFit(pgs, f, 0, total, 4 + Len(key) + Len(value))
        al == allocateNewPage(fit.pages, nextId, total)
        tp == IF fit.target = -1
              THEN [pages |-> al.pages, page |-> al.page,
                    nextPageID |-> al.nextPageID, totalPages |-> al.totalPages]
              ELSE [pages |-> fit.pages, page |-> fit.pages[fit.target],
                    nextPageID |-> nextId, totalPages |-> total]
        a == addRecord(tp.page, key, value)
    IN  [pageIndex |-> IF a.err = "nil" THEN MapPut(idx, key, tp.page.ID) ELSE idx,
         pages |-> [tp.pages EXCEPT ![tp.page.ID] = a.page],
         nextPageID |-> tp.nextPageID, totalPages |-> tp.totalPages, err |-> a.err]

PutOf(idx, pgs, f, nextId, total, key, value) ==
    IF key \in DOMAIN idx
    THEN PutExisting(idx, pgs, f, nextId, total, key, value)
    ELSE PutNew(idx, pgs, f, nextId, total, key, value)

\* ---------------------------------------------------------- Get and Delete
GetOf(idx, pgs, f, key) ==
    IF key \notin DOMAIN idx
    THEN [val |-> <<>>, err |-> "key not found", pages |-> pgs]
    ELSE LET lp == loadPage(pgs, f, idx[key])
         IN  IF lp.err THEN [val |-> <<>>, err |-> "read page", pages |-> pgs]
             ELSE LET r == findRecord(lp.page, key)
                  IN  IF ~r.found
                      THEN [val |-> <<>>, err |-> "key not found in expected page",
                            pages |-> lp.pages]
                      ELSE [val |-> r.value, err |-> "nil", pages |-> lp.pages]

\* A Delete without the index check: a key the index lacks is looked for in
\* page 0, the zero value of the map lookup
DeleteOfNoCheck(idx, pgs, f, key) ==
    LET pageID == IF key \in DOMAIN idx THEN idx[key] ELSE 0
        lp == loadPage(pgs, f, pageID)
    IN  IF lp.err THEN [pageIndex |-> idx, pages |-> pgs, err |-> "read page"]
        ELSE LET d == deleteRecord(lp.page, key)
             IN  IF ~d.ok
                 THEN [pageIndex |-> idx, pages |-> lp.pages,
                       err |-> "key not found in expected page"]
                 ELSE [pageIndex |-> MapDel(idx, key),
                       pages |-> [lp.pages EXCEPT ![pageID] = d.page],
                       err |-> "nil"]

DeleteOf(idx, pgs, f, key) ==
    IF key \notin DOMAIN idx
    THEN [pageIndex |-> idx, pages |-> pgs, err |-> "key not found"]
    ELSE LET lp == loadPage(pgs, f, idx[key])
         IN  IF lp.err THEN [pageIndex |-> idx, pages |-> pgs, err |-> "read page"]
             ELSE LET d == deleteRecord(lp.page, key)
                  IN  IF ~d.ok
                      THEN [pageIndex |-> idx, pages |-> lp.pages,
                            err |-> "key not found in expected page"]
                      ELSE [pageIndex |-> MapDel(idx, key),
                            pages |-> [lp.pages EXCEPT ![idx[key]] = d.page],
                            err |-> "nil"]

\* ------------------------------------------------------------------- Close
\* The loop of Close over the cached pages: every dirty page is written.  The
\* file that results does not depend on the order of the writes.
RECURSIVE FlushLoop(_, _, _)
FlushLoop(pgs, f, ids) ==
    IF ids = {} THEN [pages |-> pgs, file |-> f]
    ELSE LET id == CHOOSE x \in ids : \A y \in ids : x <= y
         IN  IF pgs[id].IsDirty
             THEN LET w == writePage(f, pgs[id])
                  IN  FlushLoop([pgs EXCEPT ![id] = w.page], w.file, ids \ {id})
             ELSE FlushLoop(pgs, f, ids \ {id})

updateHeader(f, nextId, total) ==
    writeHeader(f, [Magic |-> MagicNumber, Version |-> Version, PageSize |-> PageSize,
                    TotalPages |-> total, NextPageID |-> nextId])

\* ----------------------------------------------------- failing file writes
\* writePage when the file does not take the write: with fault "write" WriteAt
\* returns an error, nothing reaches the file and the page stays dirty; with
\* fault "sync" WriteAt succeeds, the dirty flag is cleared and Sync returns
\* the error.
writePageFails(f, page, fault) ==
    LET data == [i \in 1..Len(page.Data) |->
                    IF i <= 2 THEN PutU16(page.RecordCount)[i] ELSE page.Data[i]]
    IN  IF fault = "write"
        THEN [file |-> f, page |-> [page EXCEPT !.Data = data]]
        ELSE [file |-> WriteAt(f, data, pageOffset(page.ID)),
              page |-> [page EXCEPT !.Data = data, !.IsDirty = FALSE]]

\* The orders in which the loop of Close may meet the cached pages (the
\* iteration order of a Go map is not specified)
Orders(pgs) ==
    {o \in [1..Cardinality(DOMAIN pgs) -> DOMAIN pgs] :
        \A i, j \in DOMAIN o : o[i] = o[j] => i = j}

\* A loop of Close that goes on to the next page after a failed write
RECURSIVE FlushLoopGoesOn(_, _, _, _, _, _)
FlushLoopGoesOn(pgs, f, order, i, failAt, fault) ==
    IF i > Len(order) THEN [pages |-> pgs, file |-> f]
    ELSE LET id == order[i]
         IN  IF ~pgs[id].IsDirty
             THEN FlushLoopGoesOn(pgs, f, order, i + 1, failAt, fault)
             ELSE LET w == IF i = failAt THEN writePageFails(f, pgs[id], fault)
                           ELSE writePage(f, pgs[id])
                  IN  FlushLoopGoesOn([pgs EXCEPT ![id] = w.page], w.file, order,
                                      i + 1, failAt, fault)

\* The loop of Close over the cached pages in the given order when the write
\* of the page order[failAt] fails: Close returns there.
RECURSIVE FlushLoopFails(_, _, _, _, _, _)
FlushLoopFails(pgs, f, order, i, failAt, fault) ==
    IF i > Len(order) THEN [pages |-> pgs, file |-> f]
    ELSE LET id == order[i]
         IN  IF ~pgs[id].IsDirty
             THEN FlushLoopFails(pgs, f, order, i + 1, failAt, fault)
             ELSE IF i = failAt
             THEN LET w == writePageFails(f, pgs[id], fault)
                  IN  [pages |-> [pgs EXCEPT ![id] = w.page], file |-> w.file]
             ELSE LET w == writePage(f, pgs[id])
                  IN  FlushLoopFails([pgs EXCEPT ![id] = w.page], w.file, order,
                                     i + 1, failAt, fault)

\* updateHeader when the file does not take the write
updateHeaderFails(f, nextId, total, fault) ==
    IF fault = "write" THEN f ELSE updateHeader(f, nextId, total)

\* ---------------------------------------------------------------- contents
\* The contents of the store: the keys for which Get returns a value, with
\* that value
Contents(idx, pgs, f) ==
    [k \in {x \in Keys : GetOf(idx, pgs, f, x).err = "nil"}
        |-> GetOf(idx, pgs, f, k).val]

\* The recorded contents with those of the store added, where a record is kept
Recorded(h, idx, pgs, f) == IF h = {} THEN h ELSE h \cup {Contents(idx, pgs, f)}

\* ----------------------------------------------------------------- actions
NoCall == [op |-> "none", key |-> <<>>, value |-> <<>>, err |-> "nil", val |-> <<>>]

\* The result of no call on the log
NoWalCall == [op |-> "none", err |-> "nil", lsn |-> Zeros(8), entries |-> <<>>]

\* No log file yet and no *WAL
NoLog ==
    /\ walFile = <<>>
    /\ walOpen = FALSE
    /\ walReadable = FALSE
    /\ lastLSN = Zeros(8)
    /\ walRet = NoWalCall
    /\ walAppended = <<>>
    /\ walClean = TRUE
    /\ walSynced = TRUE
    /\ walSessBase = 0

Init ==
    /\ file = <<>>
    /\ opened = FALSE
    /\ pageIndex = EmptyMap
    /\ pages = EmptyMap
    /\ nextPageID = 0
    /\ totalPages = 0
    /\ ret = NoCall
    /\ shadow = EmptyMap
    /\ sessFresh = FALSE
    /\ sessPutsOk = TRUE
    /\ gone = {}
    /\ hist = {}
    /\ budget = MaxCalls
    /\ NoLog

\* One more call that changes the store or the file
Count ==
    /\ budget > 0
    /\ budget' = budget - 1

\* NewStorage on an empty (or missing) file: initializeNewFile
OpenNew ==
    /\ ~opened
    /\ Count
    /\ Len(file) = 0
    /\ file' = writeHeader(file, [Magic |-> MagicNumber, Version |-> Version,
                                  PageSize |-> PageSize, TotalPages |-> 0,
                                  NextPageID |-> 0])
    /\ opened' = TRUE
    /\ pageIndex' = EmptyMap
    /\ pages' = EmptyMap
    /\ nextPageID' = 0
    /\ totalPages' = 0
    /\ ret' = [NoCall EXCEPT !.op = "NewStorage"]
    /\ shadow' = EmptyMap
    /\ sessFresh' = TRUE
    /\ sessPutsOk' = TRUE
    /\ UNCHANGED <<gone, hist, walVars>>

\* NewStorage on a file with content: loadHeader, then buildIndex
OpenExisting ==
    /\ ~opened
    /\ Count
    /\ Len(file) > 0
    /\ LET h == loadHeader(file)
           b == buildIndex(file, h.totalPages)
           err == IF h.err # "nil" THEN h.err ELSE b.err
       IN  /\ opened' = (err = "nil")
           /\ pageIndex' = IF h.err = "nil" THEN b.pageIndex ELSE EmptyMap
           /\ pages' = IF h.err = "nil" THEN b.pages ELSE EmptyMap
           /\ nextPageID' = h.nextPageID
           /\ totalPages' = h.totalPages
           /\ ret' = [NoCall EXCEPT !.op = "NewStorage", !.err = err]
    /\ shadow' = EmptyMap
    /\ sessFresh' = FALSE
    /\ sessPutsOk' = TRUE
    /\ UNCHANGED <<file, gone, hist, walVars>>

Put(key, value) ==
    /\ opened
    /\ Count
    /\ LET r == PutOf(pageIndex, pages, file, nextPageID, totalPages, key, value)
       IN  /\ r.nextPageID <= MaxPages
           /\ pageIndex' = r.pageIndex
           /\ pages' = r.pages
           /\ nextPageID' = r.nextPageID
           /\ totalPages' = r.totalPages
           /\ ret' = [op |-> "Put", key |-> key, value |-> value, err |-> r.err,
                      val |-> <<>>]
           /\ sessPutsOk' = (sessPutsOk /\ r.err = "nil")
           /\ shadow' = IF ~sessPutsOk' THEN EmptyMap ELSE MapPut(shadow, key, value)
           /\ gone' = IF r.err = "nil" THEN gone \ {key} ELSE gone
           /\ hist' = Recorded(hist, r.pageIndex, r.pages, file)
    /\ UNCHANGED <<file, opened, sessFresh, walVars>>

Get(key) ==
    /\ opened
    /\ LET r == GetOf(pageIndex, pages, file, key)
       IN  /\ pages' = r.pages
           /\ ret' = [op |-> "Get", key |-> key, value |-> <<>>, err |-> r.err,
                      val |-> r.val]
    /\ UNCHANGED <<file, opened, pageIndex, nextPageID, totalPages,
                   shadow, sessFresh, sessPutsOk, gone, hist, budget, walVars>>

Delete(key) ==
    /\ opened
    /\ Count
    /\ LET r == DeleteOf(pageIndex, pages, file, key)
       IN  /\ pageIndex' = r.pageIndex
           /\ pages' = r.pages
           /\ ret' = [op |-> "Delete", key |-> key, value |-> <<>>, err |-> r.err,
                      val |-> <<>>]
           /\ shadow' = IF r.err = "nil" THEN MapDel(shadow, key) ELSE shadow
           /\ gone' = IF r.err = "nil" THEN gone \cup {key} ELSE gone
           /\ hist' = Recorded(hist, r.pageIndex, r.pages, file)
    /\ UNCHANGED <<file, opened, nextPageID, totalPages, sessFresh, sessPutsOk,
                   walVars>>

Close ==
    /\ opened
    /\ Count
    /\ LET fl == FlushLoop(pages, file, DOMAIN pages)
       IN  /\ pages' = fl.pages
           /\ file' = updateHeader(fl.file, nextPageID, totalPages)
    /\ opened' = FALSE
    /\ ret' = [NoCall EXCEPT !.op = "Close"]
    /\ UNCHANGED <<pageIndex, nextPageID, totalPages, shadow, sessFresh, sessPutsOk,
                   gone, hist, walVars>>

Next ==
    \/ OpenNew
    \/ OpenExisting
    \/ \E key \in Keys, value \in Values : Put(key, value)
    \/ \E key \in Keys : Get(key)
    \/ \E key \in Keys : Delete(key)
    \/ Close

Spec == Init /\ [][Next]_vars

\* The same store driven longer with the empty value only
InitDeep ==
    /\ file = <<>>
    /\ opened = FALSE
    /\ pageIndex = EmptyMap
    /\ pages = EmptyMap
    /\ nextPageID = 0
    /\ totalPages = 0
    /\ ret = NoCall
    /\ shadow = EmptyMap
    /\ sessFresh = FALSE
    /\ sessPutsOk = TRUE
    /\ gone = {}
    /\ hist = {}
    /\ budget = DeepCalls
    /\ NoLog

NextDeep ==
    \/ OpenNew
    \/ OpenExisting
    \/ \E key \in Keys : Put(key, <<>>)
    \/ \E key \in Keys : Get(key)
    \/ \E key \in Keys : Delete(key)
    \/ Close

SpecDeep == InitDeep /\ [][NextDeep]_vars

\* ---------------------------------- the store with the zero-length key
KeysE == {<<>>, <<1>>}

InitEmpty ==
    /\ file = <<>>
    /\ opened = FALSE
    /\ pageIndex = EmptyMap
    /\ pages = EmptyMap
    /\ nextPageID = 0
    /\ totalPages = 0
    /\ ret = NoCall
    /\ shadow = EmptyMap
    /\ sessFresh = FALSE
    /\ sessPutsOk = TRUE
    /\ gone = {}
    /\ hist = {}
    /\ budget = EmptyCalls
    /\ NoLog

NextEmpty ==
    \/ OpenNew
    \/ OpenExisting
    \/ \E key \in KeysE, value \in {<<>>, BigValue} : Put(key, value)
    \/ \E key \in KeysE : Get(key)
    \/ \E key \in KeysE : Delete(key)
    \/ Close

SpecEmpty == InitEmpty /\ [][NextEmpty]_vars

\* ------------------------------------------- the store with a faulty file
Faults == {"write", "sync"}

\* Close when the write of a dirty page fails: the pages the loop met before
\* are written, Close returns the error, the header is not written and the
\* file is not closed.
CloseFailsAtPage(order, failAt, fault) ==
    /\ opened
    /\ Count
    /\ order \in Orders(pages)
    /\ failAt \in DOMAIN order
    /\ pages[order[failAt]].IsDirty
    /\ LET fl == FlushLoopFails(pages, file, order, 1, failAt, fault)
       IN  /\ pages' = fl.pages
           /\ file' = fl.file
    /\ ret' = [op |-> "Close", key |-> <<>>, value |-> <<>>, err |-> "page " \o fault,
               val |-> <<>>, order |-> order, failAt |-> failAt]
    /\ UNCHANGED <<opened, pageIndex, nextPageID, totalPages, shadow, sessFresh,
                   sessPutsOk, gone, hist, walVars>>

\* Close when every page write succeeds and the header write fails: the file
\* is not closed.
CloseFailsAtHeader(fault) ==
    /\ opened
    /\ Count
    /\ LET fl == FlushLoop(pages, file, DOMAIN pages)
       IN  /\ pages' = fl.pages
           /\ file' = updateHeaderFails(fl.file, nextPageID, totalPages, fault)
    /\ ret' = [NoCall EXCEPT !.op = "Close", !.err = "header " \o fault]
    /\ UNCHANGED <<opened, pageIndex, nextPageID, totalPages, shadow, sessFresh,
                   sessPutsOk, gone, hist, walVars>>

\* The process ends without Close: the cache, the index and the counters are
\* lost, the file keeps what was written to it.
Crash ==
    /\ opened
    /\ Count
    /\ opened' = FALSE
    /\ ret' = [NoCall EXCEPT !.op = "Crash"]
    /\ UNCHANGED <<file, pageIndex, pages, nextPageID, totalPages, shadow, sessFresh,
                   sessPutsOk, gone, hist, walVars>>

\* The header fields whose first byte the file may come back with changed
\* between two sessions: Magic, Version, PageSize
DamageOffsets == {0, 4, 8}

\* While no store is open the byte at the offset of the file changes
Damage(off) ==
    /\ ~opened
    /\ Count
    /\ Len(file) >= HeaderSize
    /\ file' = [file EXCEPT ![off + 1] = (file[off + 1] + 1) % 128]
    /\ ret' = [NoCall EXCEPT !.op = "Damage"]
    /\ UNCHANGED <<opened, pageIndex, pages, nextPageID, totalPages, shadow, sessFresh,
                   sessPutsOk, gone, hist, walVars>>

InitFaults ==
    /\ file = <<>>
    /\ opened = FALSE
    /\ pageIndex = EmptyMap
    /\ pages = EmptyMap
    /\ nextPageID = 0
    /\ totalPages = 0
    /\ ret = NoCall
    /\ shadow = EmptyMap
    /\ sessFresh = FALSE
    /\ sessPutsOk = TRUE
    /\ gone = {}
    /\ hist = {}
    /\ budget = FaultCalls
    /\ NoLog

NextFaults ==
    \/ OpenNew
    \/ OpenExisting
    \/ \E key \in Keys, value \in {<<>>, BigValue} : Put(key, value)
    \/ \E key \in Keys : Get(key)
    \/ \E key \in Keys : Delete(key)
    \/ Close
    \/ \E order \in Orders(pages), failAt \in 1..MaxPages, fault \in Faults :
          CloseFailsAtPage(order, failAt, fault)
    \/ \E fault \in Faults : CloseFailsAtHeader(fault)
    \/ Crash
    \/ \E off \in DamageOffsets : Damage(off)

SpecFaults == InitFaults /\ [][NextFaults]_vars

\* ------------------------------------ the store that ends during a session
\* A behaviour of SpecCrash, which begins with a closed store of two pages,
\* has at most this many calls.
CrashCalls == 6

\* The index, the cache and the counters after the puts i.. on the store st
RECURSIVE StoreAfter(_, _, _, _)
StoreAfter(st, f, puts, i) ==
    IF i > Len(puts) THEN st
    ELSE StoreAfter(PutOf(st.pageIndex, st.pages, f, st.nextPageID, st.totalPages,
                          puts[i].key, puts[i].value),
                    f, puts, i + 1)

\* The file of a new store: initializeNewFile
NewFile ==
    writeHeader(<<>>, [Magic |-> MagicNumber, Version |-> Version,
                       PageSize |-> PageSize, TotalPages |-> 0, NextPageID |-> 0])

\* A new store
NewStore ==
    [pageIndex |-> EmptyMap, pages |-> EmptyMap, nextPageID |-> 0, totalPages |-> 0,
     err |-> "nil"]

\* The file that NewStorage on an empty file, the puts and Close leave
ClosedFile(puts) ==
    LET st == StoreAfter(NewStore, NewFile, puts, 1)
        fl == FlushLoop(st.pages, NewFile, DOMAIN st.pages)
    IN  updateHeader(fl.file, st.nextPageID, st.totalPages)

\* The puts of the first session: each record fills more than half a page,
\* so the two are in two pages
FirstPuts == <<[key |-> <<1>>, value |-> BigValue], [key |-> <<2>>, value |-> BigValue]>>

InitCrash ==
    /\ file = ClosedFile(FirstPuts)
    /\ opened = FALSE
    /\ pageIndex = EmptyMap
    /\ pages = EmptyMap
    /\ nextPageID = 0
    /\ totalPages = 0
    /\ ret = NoCall
    /\ shadow = EmptyMap
    /\ sessFresh = FALSE
    /\ sessPutsOk = TRUE
    /\ gone = {}
    /\ hist = LET st == StoreAfter(NewStore, NewFile, FirstPuts, 1)
              IN  {Contents(st.pageIndex, st.pages, NewFile)}
    /\ budget = CrashCalls
    /\ NoLog

\* Get is not offered: every page is in the cache once the store is open, so
\* Get changes nothing the next call depends on
NextCrash ==
    \/ OpenExisting
    \/ \E key \in Keys, value \in {<<>>, BigValue} : Put(key, value)
    \/ \E key \in Keys : Delete(key)
    \/ Close
    \/ \E order \in Orders(pages), failAt \in 1..MaxPages, fault \in Faults :
          CloseFailsAtPage(order, failAt, fault)
    \/ \E fault \in Faults : CloseFailsAtHeader(fault)
    \/ Crash

SpecCrash == InitCrash /\ [][NextCrash]_vars

\* ------------------------------------- the store opened on a damaged page
\* A file of SpecCorrupt is the closed file of a session of at most this
\* many puts, with the length field of one record changed.
CorruptPuts == 3

KeysC == {<<1>>, <<2>>, <<3>>}

\* The sessions whose closed files are damaged
PutSeqs ==
    UNION {[1..n -> [key : KeysC, value : {<<>>, BigValue}]] : n \in 1..CorruptPuts}

\* The files those sessions leave when they end with Close
ClosedFiles == {ClosedFile(puts) : puts \in PutSeqs}

\* The offset, in the page buffer, of the record i of a page whose records
\* are laid out one after the other from offset 2
RECURSIVE RecordOffset(_, _, _)
RecordOffset(data, i, offset) ==
    IF i <= 1 THEN offset
    ELSE RecordOffset(data, i - 1,
                      offset + 4 + U16(data, offset) + U16(data, offset + 2))

\* The file with the length field (0: keyLen, 2: valueLen) of the record i of
\* the page changed to the size of a page, so that the record's declared end
\* is past the end of the page
CorruptRecord(f, pageID, i, field) ==
    LET data == Slice(f, pageOffset(pageID), pageOffset(pageID) + PageSize)
    IN  WriteAt(f, PutU16(PageSize),
                pageOffset(pageID) + RecordOffset(data, i, 2) + field)

InitCorrupt ==
    /\ \E f \in ClosedFiles, pageID \in 0..(CorruptPuts - 1), i \in 1..CorruptPuts,
          field \in {0, 2} :
          /\ pageID < U32(f, 12)
          /\ i <= U16(f, pageOffset(pageID))
          /\ file = CorruptRecord(f, pageID, i, field)
    /\ opened = FALSE
    /\ pageIndex = EmptyMap
    /\ pages = EmptyMap
    /\ nextPageID = 0
    /\ totalPages = 0
    /\ ret = NoCall
    /\ shadow = EmptyMap
    /\ sessFresh = FALSE
    /\ sessPutsOk = TRUE
    /\ gone = {}
    /\ hist = {}
    /\ budget = 1
    /\ NoLog

NextCorrupt ==
    \/ OpenExisting
    \/ \E key \in KeysC : Get(key)

SpecCorrupt == InitCorrupt /\ [][NextCorrupt]_vars

\* ================================================================= the log
\* ---------------------------------------------------------------- checksum
\* A 32-bit word is the sequence of its bits, least significant first.
\* The generator polynomial of CRC-32/IEEE, reflected: 0xEDB88320
IEEE ==
    <<0, 0, 0, 0, 0, 1, 0, 0,
      1, 1, 0, 0, 0, 0, 0, 1,
      0, 0, 0, 1, 1, 1, 0, 1,
      1, 0, 1, 1, 0, 1, 1, 1>>

\* One bit of the table-less CRC: shift right, and xor the polynomial in when
\* the bit shifted out is 1
CrcShift(c) ==
    IF c[1] = 1
    THEN <<(c[2] + IEEE[1]) % 2, (c[3] + IEEE[2]) % 2, (c[4] + IEEE[3]) % 2,
           (c[5] + IEEE[4]) % 2, (c[6] + IEEE[5]) % 2, (c[7] + IEEE[6]) % 2,
           (c[8] + IEEE[7]) % 2, (c[9] + IEEE[8]) % 2, (c[10] + IEEE[9]) % 2,
           (c[11] + IEEE[10]) % 2, (c[12] + IEEE[11]) % 2, (c[13] + IEEE[12]) % 2,
           (c[14] + IEEE[13]) % 2, (c[15] + IEEE[14]) % 2, (c[16] + IEEE[15]) % 2,
           (c[17] + IEEE[16]) % 2, (c[18] + IEEE[17]) % 2, (c[19] + IEEE[18]) % 2,
           (c[20] + IEEE[19]) % 2, (c[21] + IEEE[20]) % 2, (c[22] + IEEE[21]) % 2,
           (c[23] + IEEE[22]) % 2, (c[24] + IEEE[23]) % 2, (c[25] + IEEE[24]) % 2,
           (c[26] + IEEE[25]) % 2, (c[27] + IEEE[26]) % 2, (c[28] + IEEE[27]) % 2,
           (c[29] + IEEE[28]) % 2, (c[30] + IEEE[29]) % 2, (c[31] + IEEE[30]) % 2,
           (c[32] + IEEE[31]) % 2, IEEE[32]>>
    ELSE Tail(c) \o <<0>>

RECURSIVE CrcShifts(_, _)
CrcShifts(c, n) == IF n = 0 THEN c ELSE CrcShifts(CrcShift(c), n - 1)

\* The register after one more byte of input: the byte is xored into the low
\* 8 bits, then 8 shifts
CrcByte(c, b) ==
    CrcShifts(<<(c[1] + ((b \div 1) % 2)) % 2, (c[2] + ((b \div 2) % 2)) % 2,
                 (c[3] + ((b \div 4) % 2)) % 2, (c[4] + ((b \div 8) % 2)) % 2,
                 (c[5] + ((b \div 16) % 2)) % 2, (c[6] + ((b \div 32) % 2)) % 2,
                 (c[7] + ((b \div 64) % 2)) % 2, (c[8] + ((b \div 128) % 2)) % 2>>
                \o SubSeq(c, 9, 32),
              8)

\* The register after the bytes i.. of the input; it stays 32 bits wide
RECURSIVE CrcBytes(_, _, _)
CrcBytes(c, data, i) ==
    IF i > Len(data) THEN c
    ELSE LET next == CrcByte(c, data[i])
         IN  IF Len(next) = 32 THEN CrcBytes(next, data, i + 1) ELSE next

\* crc32.ChecksumIEEE(data), as the 4 little-endian bytes of the uint32
ChecksumIEEE(data) ==
    LET c == CrcBytes(Rep(1, 32), data, 1)
        bit(i) == 1 - c[i]
        byte(j) ==
            bit(8 * j - 7) + 2 * bit(8 * j - 6) + 4 * bit(8 * j - 5) + 8 * bit(8 * j - 4)
              + 16 * bit(8 * j - 3) + 32 * bit(8 * j - 2) + 64 * bit(8 * j - 1)
              + 128 * bit(8 * j)
    IN  <<byte(1), byte(2), byte(3), byte(4)>>

\* ------------------------------------------------------------- wide numbers
\* int(v) of a uint32 given by its bytes.  A value of 2^30 or more stands as
\* 2^30: it is only added to an offset and compared with a length that is far
\* smaller.
IntOfU32(b) ==
    IF b[4] >= 64 THEN 2 ^ 30
    ELSE b[1] + 256 * b[2] + 65536 * b[3] + 16777216 * b[4]

\* a > b for two uint64 given by their bytes
RECURSIVE GreaterFrom(_, _, _)
GreaterFrom(a, b, i) ==
    IF i = 0 THEN FALSE
    ELSE IF a[i] # b[i] THEN a[i] > b[i]
    ELSE GreaterFrom(a, b, i - 1)

GreaterU64(a, b) == GreaterFrom(a, b, 8)

\* v + 1 of a uint64 given by its bytes (wrapping at 2^64)
RECURSIVE IncFrom(_, _)
IncFrom(v, i) ==
    IF i > Len(v) THEN v
    ELSE IF v[i] < 255 THEN [v EXCEPT ![i] = v[i] + 1]
    ELSE IncFrom([v EXCEPT ![i] = 0], i + 1)

\* An increment that is applied twice
Inc64Twice(v) == IncFrom(IncFrom(v, 1), 1)

Inc64(v) == IncFrom(v, 1)

\* binary.LittleEndian.PutUint64(_, n) for the small numbers the claims name
PutU64(n) == PutU32(n) \o Zeros(4)

\* -------------------------------------------------------------- entry codec
LogTypePut == 1
LogTypeDelete == 2

\* LogEntry.Serialize: the fields EntrySize and Checksum are written as the
\* entry holds them; the checksum the method computes is not used.
Serialize(e) ==
    e.LSN \o e.EntrySize \o <<e.Type>> \o PutU16(e.KeyLen) \o PutU16(e.ValueLen)
      \o e.Key \o e.Value \o e.Checksum

NoEntry ==
    [LSN |-> Zeros(8), EntrySize |-> Zeros(4), Type |-> 0, KeyLen |-> 0, ValueLen |-> 0,
     Key |-> <<>>, Value |-> <<>>, Checksum |-> Zeros(4)]

Deserialize(data) ==
    IF Len(data) < 8 + 4 + 1 + 2 + 2 + 4
    THEN [entry |-> NoEntry, err |-> "insufficient data for log entry header"]
    ELSE IF Len(data) < IntOfU32(Slice(data, 8, 12))
    THEN [entry |-> NoEntry, err |-> "incomplete log entry"]
    ELSE LET keyLen == U16(data, 13)
             valueLen == U16(data, 15)
             offset == 17
         IN  IF offset + keyLen > Len(data)
             THEN [entry |-> NoEntry, err |-> "invalid key length"]
             ELSE IF offset + keyLen + valueLen > Len(data)
             THEN [entry |-> NoEntry, err |-> "invalid value length"]
             ELSE IF offset + keyLen + valueLen + 4 > Len(data)
             THEN [entry |-> NoEntry, err |-> "missing checksum"]
             ELSE [entry |->
                      [LSN |-> Slice(data, 0, 8),
                       EntrySize |-> Slice(data, 8, 12),
                       Type |-> data[13],
                       KeyLen |-> keyLen,
                       ValueLen |-> valueLen,
                       Key |-> Slice(data, offset, offset + keyLen),
                       Value |-> Slice(data, offset + keyLen, offset + keyLen + valueLen),
                       Checksum |-> Slice(data, offset + keyLen + valueLen,
                                          offset + keyLen + valueLen + 4)],
                   err |-> "nil"]

\* A ValidateChecksum that accepts every entry
ValidateChecksumAlways(e) == TRUE

ValidateChecksum(e) ==
    LET data == Serialize(e)
    IN  ChecksumIEEE(Slice(data, 0, Len(data) - 4)) = e.Checksum

\* ------------------------------------------------------- the log's methods
\* The loop of scanForLastLSN.  ReadAt returns an error when the file was not
\* opened for reading and when fewer than 12 bytes are left.  An entry size
\* of 0 leaves the offset where it is: the loop does not end (hangs).
RECURSIVE ScanLoop(_, _, _, _)
ScanLoop(f, readable, offset, last) ==
    IF offset >= Len(f) THEN [lastLSN |-> last, hangs |-> FALSE]
    ELSE IF ~readable \/ offset + 12 > Len(f) THEN [lastLSN |-> last, hangs |-> FALSE]
    ELSE LET lsn == Slice(f, offset, offset + 8)
             entrySize == IntOfU32(Slice(f, offset + 8, offset + 12))
             seen == IF GreaterU64(lsn, last) THEN lsn ELSE last
         IN  IF entrySize = 0 THEN [lastLSN |-> seen, hangs |-> TRUE]
             ELSE ScanLoop(f, readable, offset + entrySize, seen)

\* A scan whose every ReadAt of 12 bytes that are in the file succeeds, as on a
\* file opened for reading
scanForLastLSNReading(f, readable, last) == ScanLoop(f, TRUE, 0, last)

scanForLastLSN(f, readable, last) == ScanLoop(f, readable, 0, last)

\* The entry Append builds for its arguments: EntrySize and Checksum keep
\* the zero value
AppendEntry(lsn, typ, key, value) ==
    [LSN |-> lsn, EntrySize |-> Zeros(4), Type |-> typ,
     KeyLen |-> Len(key) % 65536, ValueLen |-> Len(value) % 65536,
     Key |-> key, Value |-> value, Checksum |-> Zeros(4)]

\* The loop of ReadAll over the bytes of the file
RECURSIVE ReadLoop(_, _, _)
ReadLoop(data, offset, entries) ==
    IF offset >= Len(data) THEN entries
    ELSE IF offset + 12 > Len(data) THEN entries
    ELSE LET entrySize == IntOfU32(Slice(data, offset + 8, offset + 12))
         IN  IF offset + entrySize > Len(data) THEN entries
             ELSE LET d == Deserialize(Slice(data, offset, offset + entrySize))
                  IN  IF d.err # "nil" THEN entries
                      ELSE IF ~ValidateChecksum(d.entry) THEN entries
                      ELSE ReadLoop(data, offset + entrySize, entries \o <<d.entry>>)

\* ReadAll: an empty file gives no entries, a file not opened for reading
\* gives the error of ReadAt
ReadAllOf(f, readable) ==
    IF Len(f) = 0 THEN [entries |-> <<>>, err |-> "nil"]
    ELSE IF ~readable THEN [entries |-> <<>>, err |-> "failed to read WAL"]
    ELSE [entries |-> ReadLoop(f, 0, <<>>), err |-> "nil"]

\* ------------------------------------------------------ the log's actions
\* NewWAL: the file is opened (created when missing) for appending only, and
\* scanned for the last LSN when it is not empty
NewWAL ==
    /\ ~walOpen
    /\ Count
    /\ LET sc == IF Len(walFile) > 0 THEN scanForLastLSN(walFile, FALSE, Zeros(8))
                 ELSE [lastLSN |-> Zeros(8), hangs |-> FALSE]
       IN  /\ walOpen' = ~sc.hangs
           /\ lastLSN' = sc.lastLSN
           /\ walRet' = [NoWalCall EXCEPT !.op = "NewWAL",
                                          !.err = IF sc.hangs THEN "hangs" ELSE "nil"]
    /\ walReadable' = FALSE
    /\ walSessBase' = Len(walAppended)
    /\ UNCHANGED <<walFile, walAppended, walClean, walSynced, storeVars>>

\* Append: the counter goes up, the entry is serialized and written at the
\* end of the file
WalAppend(typ, key, value) ==
    /\ walOpen
    /\ Count
    /\ LET lsn == Inc64(lastLSN)
           data == Serialize(AppendEntry(lsn, typ, key, value))
       IN  /\ lastLSN' = lsn
           /\ walFile' = walFile \o data
           /\ walRet' = [NoWalCall EXCEPT !.op = "Append", !.lsn = lsn]
           /\ walAppended' = walAppended \o
                 <<[LSN |-> lsn, Type |-> typ, Key |-> key, Value |-> value,
                    off |-> Len(walFile), size |-> Len(data)]>>
    /\ walSynced' = FALSE
    /\ UNCHANGED <<walOpen, walReadable, walClean, walSessBase, storeVars>>

\* Append when the file takes only the first n bytes of the entry (Write
\* returns an error or a short count): the counter has gone up, Append
\* returns 0 and the error
WalAppendFails(typ, key, value, n) ==
    /\ walOpen
    /\ Count
    /\ LET lsn == Inc64(lastLSN)
           data == Serialize(AppendEntry(lsn, typ, key, value))
       IN  /\ n < Len(data)
           /\ lastLSN' = lsn
           /\ walFile' = walFile \o SubSeq(data, 1, n)
           /\ walRet' = [NoWalCall EXCEPT !.op = "Append",
                                          !.err = "failed to write to WAL"]
    /\ walClean' = FALSE
    /\ walSynced' = FALSE
    /\ UNCHANGED <<walOpen, walReadable, walAppended, walSessBase, storeVars>>

\* Sync: file.Sync
WalSync ==
    /\ walOpen
    /\ Count
    /\ walSynced' = TRUE
    /\ walRet' = [NoWalCall EXCEPT !.op = "Sync"]
    /\ UNCHANGED <<walFile, walOpen, walReadable, lastLSN, walAppended, walClean,
                   walSessBase, storeVars>>

WalReadAll ==
    /\ walOpen
    /\ LET r == ReadAllOf(walFile, walReadable)
       IN  walRet' = [NoWalCall EXCEPT !.op = "ReadAll", !.err = r.err,
                                       !.entries = r.entries]
    /\ UNCHANGED <<walFile, walOpen, walReadable, lastLSN, walAppended, walClean,
                   walSynced, walSessBase, storeVars, budget>>

\* Close: file.Close
WalClose ==
    /\ walOpen
    /\ Count
    /\ walOpen' = FALSE
    /\ walRet' = [NoWalCall EXCEPT !.op = "Close"]
    /\ UNCHANGED <<walFile, walReadable, lastLSN, walAppended, walClean, walSynced,
                   walSessBase, storeVars>>

\* A Truncate that makes the new file and keeps the counter
TruncateKeepsLSN ==
    /\ walOpen
    /\ Count
    /\ walFile' = <<>>
    /\ walReadable' = TRUE
    /\ lastLSN' = lastLSN
    /\ walRet' = [op |-> "Truncate", err |-> "nil", lsn |-> Zeros(8), entries |-> <<>>,
                  dropped |-> Len(walAppended)]
    /\ walAppended' = <<>>
    /\ walClean' = TRUE
    /\ walSynced' = TRUE
    /\ walSessBase' = 0
    /\ UNCHANGED <<walOpen, storeVars>>

\* Truncate: the file is closed, removed and created again, opened for
\* reading and appending; the counter is 0.  The result records how many
\* appended entries the file held.
Truncate ==
    /\ walOpen
    /\ Count
    /\ walFile' = <<>>
    /\ walReadable' = TRUE
    /\ lastLSN' = Zeros(8)
    /\ walRet' = [op |-> "Truncate", err |-> "nil", lsn |-> Zeros(8), entries |-> <<>>,
                  dropped |-> Len(walAppended)]
    /\ walAppended' = <<>>
    /\ walClean' = TRUE
    /\ walSynced' = TRUE
    /\ walSessBase' = 0
    /\ UNCHANGED <<walOpen, storeVars>>

\* The calls of Append that are offered: those of TestWALOperations, with
\* short keys and values
LogInputs ==
    {[typ |-> LogTypePut, key |-> <<1>>, value |-> <<7>>],
     [typ |-> LogTypePut, key |-> <<2>>, value |-> <<>>],
     [typ |-> LogTypeDelete, key |-> <<1>>, value |-> <<>>]}

\* The numbers of bytes of an entry that a failed write may leave in the file:
\* none, the LSN and entry size, all but the last byte of the shortest entry
ShortWrites == {0, 12, 21}

InitWal ==
    /\ file = <<>>
    /\ opened = FALSE
    /\ pageIndex = EmptyMap
    /\ pages = EmptyMap
    /\ nextPageID = 0
    /\ totalPages = 0
    /\ ret = NoCall
    /\ shadow = EmptyMap
    /\ sessFresh = FALSE
    /\ sessPutsOk = TRUE
    /\ gone = {}
    /\ hist = {}
    /\ budget = WalCalls
    /\ NoLog

NextWal ==
    \/ NewWAL
    \/ \E a \in LogInputs : WalAppend(a.typ, a.key, a.value)
    \/ \E a \in LogInputs, n \in ShortWrites : WalAppendFails(a.typ, a.key, a.value, n)
    \/ WalSync
    \/ WalReadAll
    \/ WalClose
    \/ Truncate

SpecWal == InitWal /\ [][NextWal]_vars

\* ------------------------------------------- ReadAll on well-formed logs
\* An entry as the file format defines it: EntrySize is the length of the
\* serialized entry and Checksum the CRC-32 of all the bytes before it
WellFormed(lsn, typ, key, value) ==
    LET sized == [AppendEntry(lsn, typ, key, value) EXCEPT
                     !.EntrySize = PutU32(21 + Len(key) + Len(value))]
        bytes == Serialize(sized)
    IN  [sized EXCEPT !.Checksum = ChecksumIEEE(SubSeq(bytes, 1, Len(bytes) - 4))]

\* The file that holds the well-formed entries of the calls, numbered from 1,
\* and the entries as walAppended records them
RECURSIVE LogOf(_, _, _)
LogOf(calls, i, f) ==
    IF i > Len(calls) THEN f
    ELSE LogOf(calls, i + 1,
               f \o Serialize(WellFormed(PutU64(i), calls[i].typ, calls[i].key,
                                         calls[i].value)))

RECURSIVE AppendedOf(_, _, _, _)
AppendedOf(calls, i, off, done) ==
    IF i > Len(calls) THEN done
    ELSE LET size == 21 + Len(calls[i].key) + Len(calls[i].value)
         IN  AppendedOf(calls, i + 1, off + size,
                        done \o <<[LSN |-> PutU64(i), Type |-> calls[i].typ,
                                   Key |-> calls[i].key, Value |-> calls[i].value,
                                   off |-> off, size |-> size]>>)

\* The logs that are read: up to MaxLogEntries calls on one key, a Put with a
\* value and a Delete, which give entries of two lengths
CallSeqs ==
    UNION {[1..n -> {a \in LogInputs : a.key = <<1>>}] : n \in 1..MaxLogEntries}

\* b with its bit number n (0 the lowest) inverted
FlipBit(b, n) == IF (b \div (2 ^ n)) % 2 = 1 THEN b - 2 ^ n ELSE b + 2 ^ n

\* One bit of the log file changes before anything is read
Flip(at, n) ==
    /\ walOpen
    /\ walRet.op = "none"
    /\ at < Len(walFile)
    /\ walFile' = [walFile EXCEPT ![at + 1] = FlipBit(walFile[at + 1], n)]
    /\ walRet' = [op |-> "Flip", err |-> "nil", lsn |-> Zeros(8), entries |-> <<>>,
                  at |-> at]
    /\ UNCHANGED <<walOpen, walReadable, lastLSN, walAppended, walClean, walSynced,
                   walSessBase, storeVars, budget>>

\* A log opened for reading and appending, as Truncate leaves it, whose file
\* holds well-formed entries
InitLog ==
    /\ file = <<>>
    /\ opened = FALSE
    /\ pageIndex = EmptyMap
    /\ pages = EmptyMap
    /\ nextPageID = 0
    /\ totalPages = 0
    /\ ret = NoCall
    /\ shadow = EmptyMap
    /\ sessFresh = FALSE
    /\ sessPutsOk = TRUE
    /\ gone = {}
    /\ hist = {}
    /\ budget = 0
    /\ \E calls \in CallSeqs :
          /\ walFile = LogOf(calls, 1, <<>>)
          /\ walAppended = AppendedOf(calls, 1, 0, <<>>)
          /\ lastLSN = PutU64(Len(calls))
    /\ walOpen = TRUE
    /\ walReadable = TRUE
    /\ walRet = NoWalCall
    /\ walClean = TRUE
    /\ walSynced = TRUE
    /\ walSessBase = 0

NextLog ==
    \/ \E at \in 0..(MaxLogEntries * 23), n \in 0..7 : Flip(at, n)
    \/ WalReadAll

SpecLog == InitLog /\ [][NextLog]_vars

\* ------------------------------------------- page offsets in 32-bit width
\* a * m + c for the number a given by its little-endian bytes: the bytes of
\* the result from position i on, with as many bytes more than a as the
\* carry takes
RECURSIVE MulAdd(_, _, _, _)
MulAdd(a, m, c, i) ==
    IF i > Len(a)
    THEN IF c = 0 THEN <<>> ELSE <<c % 256>> \o MulAdd(a, m, c \div 256, i)
    ELSE LET t == a[i] * m + c
         IN  <<t % 256>> \o MulAdd(a, m, t \div 256, i + 1)

\* The n low bytes of a number, and the number widened to n bytes
LowBytes(b, n) == SubSeq(b, 1, n)
Widened(b, n) == b \o Zeros(n - Len(b))

\* uint32 * uint32 and uint32 + uint32 in Go: the result is reduced modulo 2^32
MulU32(a, m) == LowBytes(MulAdd(a, m, 0, 1), 4)
AddU32(a, k) == LowBytes(MulAdd(a, 1, k, 1), 4)

\* Storage.pageOffset for a page id given as the bytes of the uint32:
\* int64(HeaderSize + pageID*uint32(s.pageSize)), the sum and the product
\* taken in uint32 and the result widened to the 8 bytes of the int64
pageOffsetOf(id) == Widened(AddU32(MulU32(id, PageSize), HeaderSize), 8)

\* The page ids the offset is computed for: small ones, ones around the
\* points where the product leaves 32 bits, and the largest
PageIDs ==
    {<<b1, b2, b3, b4>> : b1 \in {0, 1, 2, 170, 171, 255}, b2 \in {0, 170, 255},
                          b3 \in {0, 170, 255}, b4 \in {0, 10, 32, 255}}

InitOffset ==
    /\ file = <<>>
    /\ opened = FALSE
    /\ pageIndex = EmptyMap
    /\ pages = EmptyMap
    /\ nextPageID = 0
    /\ totalPages = 0
    /\ ret = NoCall
    /\ shadow = EmptyMap
    /\ sessFresh = FALSE
    /\ sessPutsOk = TRUE
    /\ gone = {}
    /\ hist = {}
    /\ budget = 0
    /\ NoLog

\* s.pageOffset(id)
PageOffset(id) ==
    /\ ret' = [op |-> "pageOffset", id |-> id, offset |-> pageOffsetOf(id)]
    /\ UNCHANGED <<file, opened, pageIndex, pages, nextPageID, totalPages, shadow,
                   sessFresh, sessPutsOk, gone, hist, budget, walVars>>

NextOffset == \E id \in PageIDs : PageOffset(id)

SpecOffset == InitOffset /\ [][NextOffset]_vars

\* ------------------------- keys and values too long for a 16-bit length
\* A behaviour of SpecLong, the store and the log given keys and values of
\* more than 65535 bytes, has at most this many calls.
LongCalls == 4

\* A key of 65536 bytes and a value of 65537 bytes: as uint16 their lengths
\* are 0 and 1
HugeKey == [i \in 1..65536 |-> 1]
HugeValue == [i \in 1..65537 |-> 7]

KeysL == {<<1>>, HugeKey}
ValuesL == {<<>>, HugeValue}

InitLong ==
    /\ file = <<>>
    /\ opened = FALSE
    /\ pageIndex = EmptyMap
    /\ pages = EmptyMap
    /\ nextPageID = 0
    /\ totalPages = 0
    /\ ret = NoCall
    /\ shadow = EmptyMap
    /\ sessFresh = FALSE
    /\ sessPutsOk = TRUE
    /\ gone = {}
    /\ hist = {}
    /\ budget = LongCalls
    /\ NoLog

NextLong ==
    \/ OpenNew
    \/ \E key \in KeysL, value \in ValuesL : Put(key, value)
    \/ NewWAL
    \/ \E key \in KeysL, value \in ValuesL : WalAppend(LogTypePut, key, value)

SpecLong == InitLong /\ [][NextLong]_vars

\* ------------------------------------------------- what the claims speak of
\* What Get(key) returns in the current state
GetNow(key) == GetOf(pageIndex, pages, file, key)
GetFails(key) == GetNow(key).err # "nil" /\ GetNow(key).val = <<>>
GetReturns(key, value) == GetNow(key).err = "nil" /\ GetNow(key).val = value

\* The records a page holds by the layout of the file format: RecordCount
\* records from offset 2, each keyLen:u16, valueLen:u16, key, value
RECURSIVE RecordsFrom(_, _, _)
RecordsFrom(data, n, offset) ==
    IF n = 0 \/ offset + 4 > Len(data) THEN <<>>
    ELSE LET kl == data[offset + 1] + 256 * data[offset + 2]
             vl == data[offset + 3] + 256 * data[offset + 4]
         IN  IF offset + 4 + kl + vl > Len(data) THEN <<>>
             ELSE <<[key |-> SubSeq(data, offset + 5, offset + 4 + kl),
                     value |-> SubSeq(data, offset + 5 + kl, offset + 4 + kl + vl)]>>
                  \o RecordsFrom(data, n - 1, offset + 4 + kl + vl)

RecordsOf(page) == RecordsFrom(page.Data, page.RecordCount, 2)
\* The positions of the records of a page that carry the key
Holds(page, key) == {i \in DOMAIN RecordsOf(page) : RecordsOf(page)[i].key = key}
\* The (page, position) pairs of all cached pages that carry the key
PlacesIn(pgs, key) == UNION {{<<id, i>> : i \in Holds(pgs[id], key)} : id \in DOMAIN pgs}
Places(key) == PlacesIn(pages, key)

AllKeys == Keys \cup DOMAIN pageIndex

\* In a session opened on an empty file in which every Put so far has
\* succeeded the store is the map of the session's Puts and Deletes.
FreshSessionIsMap ==
    (opened /\ sessFresh /\ sessPutsOk) =>
        /\ \A k \in AllKeys \cup DOMAIN shadow :
              IF k \in DOMAIN shadow THEN GetReturns(k, shadow[k]) ELSE GetFails(k)
        /\ Cardinality(DOMAIN pageIndex) = Cardinality(DOMAIN shadow)

\* ---------------------------------------------------------------------- C1
\* C1: in an open session in which every Put so far has succeeded, Get(k)
\* returns the value of the session's latest successful Put(k) that no
\* successful Delete(k) has followed; in a session opened on an empty file
\* Get fails for every other key and the index has one entry per live key.
C1_StoreIsMap ==
    (opened /\ sessPutsOk) =>
        /\ \A k \in DOMAIN shadow : GetReturns(k, shadow[k])
        /\ sessFresh =>
              /\ \A k \in AllKeys \ DOMAIN shadow : GetFails(k)
              /\ Cardinality(DOMAIN pageIndex) = Cardinality(DOMAIN shadow)

\* What Get(key) returns in the state after the step
GetNext(key) == GetOf(pageIndex', pages', file', key)
\* The step is the call op (a NewStorage, Put, Delete or Close)
Called(op) == budget' = budget - 1 /\ ret'.op = op
\* The record fits a page that holds nothing else
FitsEmptyPage(key, value) == 4 + Len(key) + Len(value) <= PageSize - 2

\* ---------------------------------------------------------------------- C2
\* C2: in every reachable state, when Put(k,v) has just returned success,
\* Get(k) returns exactly v with no error.
C2_PutThenGet ==
    (opened /\ ret.op = "Put" /\ ret.err = "nil") => GetReturns(ret.key, ret.value)

\* ---------------------------------------------------------------------- C3
\* C3: when a successful Put(k,v2) follows a successful Put(k,v1), Get(k)
\* returns v2, exactly one record with key k exists across all pages, and the
\* index entry of k names the page that holds it.
C3_UpdateLeavesOneRecord ==
    [][(opened /\ ret.op = "Put" /\ ret.err = "nil"
          /\ Called("Put") /\ ret'.err = "nil" /\ ret'.key = ret.key)
        => /\ GetNext(ret'.key).err = "nil"
           /\ GetNext(ret'.key).val = ret'.value
           /\ Cardinality(PlacesIn(pages', ret'.key)) = 1
           /\ \A pl \in PlacesIn(pages', ret'.key) : pageIndex'[ret'.key] = pl[1]]_vars

\* ---------------------------------------------------------------------- C5
\* C5: when a session that began on an empty file and whose Puts all
\* succeeded is closed and the file is opened again, Get(k) returns for every
\* key what it returned before Close: the same value for a live key, an error
\* for a key that was deleted or never put.
C5_ReopenKeepsValues ==
    [][(~opened /\ sessFresh /\ sessPutsOk /\ Called("NewStorage"))
        => /\ opened'
           /\ \A k \in AllKeys \cup AllKeys' :
                 /\ GetNext(k).val = GetNow(k).val
                 /\ (GetNext(k).err = "nil") = (GetNow(k).err = "nil")]_vars

\* ---------------------------------------------------------------------- C6
\* C6: when such a session is closed and the file is opened again, the
\* rebuilt index equals the index before Close: every key stored in a page is
\* mapped to the page holding its record and no other key is present.
C6_ReopenRebuildsIndex ==
    [][(~opened /\ sessFresh /\ sessPutsOk /\ Called("NewStorage"))
        => /\ pageIndex' = pageIndex
           /\ \A k \in AllKeys \cup AllKeys' :
                 /\ k \in DOMAIN pageIndex' <=> PlacesIn(pages', k) # {}
                 /\ \A pl \in PlacesIn(pages', k) : pageIndex'[k] = pl[1]]_vars

\* ---------------------------------------------------------------------- C7
\* C7: when Put(k,v2) on a key the index holds returns an error, the index and
\* the pages are as before the call and Get(k) returns what it returned.
C7_FailedUpdateChangesNothing ==
    [][(opened /\ Called("Put") /\ ret'.err # "nil" /\ ret'.key \in DOMAIN pageIndex)
        => /\ pageIndex' = pageIndex
           /\ pages' = pages
           /\ GetNext(ret'.key).val = GetNow(ret'.key).val
           /\ GetNext(ret'.key).err = GetNow(ret'.key).err]_vars

\* ---------------------------------------------------------------------- C8
\* C8: a Put whose record of 4 + len(key) + len(value) bytes fits an empty
\* page succeeds, for a new key and for a key the index holds.
C8_FittingPutSucceeds ==
    (ret.op = "Put" /\ FitsEmptyPage(ret.key, ret.value)) => ret.err = "nil"

\* ---------------------------------------------------------------------- C9
\* C9: Get(k) returns an error and no value when k is not in the index, and
\* when the page the index names holds no record with key k.
IndexDiverges(key) ==
    /\ key \in DOMAIN pageIndex
    /\ pageIndex[key] \in DOMAIN pages
    /\ Holds(pages[pageIndex[key]], key) = {}

C9_GetReportsMissingKey ==
    /\ \A k \in AllKeys : (k \notin DOMAIN pageIndex \/ IndexDiverges(k)) => GetFails(k)
    /\ (opened /\ ret.op = "Get"
          /\ (ret.key \notin DOMAIN pageIndex \/ IndexDiverges(ret.key)))
        => (ret.err # "nil" /\ ret.val = <<>>)

\* Get has just failed on a key the index maps to a page without its record
C9_Witness ==
    /\ opened /\ ret.op = "Get" /\ IndexDiverges(ret.key)
    /\ ret.err = "key not found in expected page"
    /\ Cardinality(DOMAIN pageIndex) = 2

\* --------------------------------------------------------------------- C10
\* C10: Delete(k) for a key that is not in the index returns the not-found
\* error and leaves the index, the pages (content, record count, dirty flag),
\* totalPages, nextPageId and the file unchanged.
C10_DeleteOfUnknownKey ==
    [][(opened /\ Called("Delete") /\ ret'.key \notin DOMAIN pageIndex)
        => /\ ret'.err = "key not found"
           /\ UNCHANGED <<pageIndex, pages, totalPages, nextPageID, file>>]_vars

\* Delete has just failed on an unknown key while another key is stored
C10_Witness ==
    /\ opened /\ ret.op = "Delete" /\ ret.err = "key not found"
    /\ ret.key \notin DOMAIN pageIndex
    /\ pageIndex # EmptyMap
    /\ \E id \in DOMAIN pages : pages[id].RecordCount > 0

\* ---------------------------------------------------------------------- C4
\* C4: after a successful Put(k,v) followed by a successful Delete(k), Get(k)
\* fails with the not-found error, and keeps failing until the next
\* successful Put(k).
C4_DeletedKeyStaysGone ==
    opened => \A k \in gone : GetFails(k) /\ GetNow(k).err = "key not found"

\* --------------------------------------------------------------------- C11
\* C11: NewStorage on a file that holds a header fails, and no store is in
\* use afterwards, with the magic error when the magic differs from the
\* signature, else with the version error when the version differs, else with
\* the page size error when the page size differs; the index and the cache
\* stay empty and the file's bytes are unchanged.
MagicDiffers(f) == U32(f, 0) # MagicNumber
VersionDiffers(f) == U32(f, 4) # Version
PageSizeDiffers(f) == U32(f, 8) # PageSize

C11_BadHeaderIsRefused ==
    [][(~opened /\ Called("NewStorage") /\ Len(file) >= HeaderSize
          /\ (MagicDiffers(file) \/ VersionDiffers(file) \/ PageSizeDiffers(file)))
        => /\ ~opened'
           /\ ret'.err # "nil"
           /\ MagicDiffers(file) => ret'.err = "magic number mismatch"
           /\ (~MagicDiffers(file) /\ VersionDiffers(file))
                 => ret'.err = "incorrect version"
           /\ (~MagicDiffers(file) /\ ~VersionDiffers(file))
                 => ret'.err = "page size mismatch"
           /\ pageIndex' = EmptyMap
           /\ pages' = EmptyMap
           /\ file' = file]_vars

\* NewStorage has just refused, for its version, a file whose page size
\* differs too and which holds a page
C11_Witness ==
    /\ ~opened /\ ret.op = "NewStorage" /\ ret.err = "incorrect version"
    /\ PageSizeDiffers(file)
    /\ Len(file) > HeaderSize

\* --------------------------------------------------------------------- C12
\* C12: NewStorage on an empty file yields a store with totalPages = 0,
\* nextPageID = 0, an empty index and an empty cache, and a file whose header
\* holds the signature, the current version, the configured page size,
\* totalPages 0 and nextPageID 0.
C12_NewFileIsEmptyStore ==
    [][(~opened /\ Called("NewStorage") /\ Len(file) = 0)
        => /\ opened'
           /\ ret'.err = "nil"
           /\ totalPages' = 0
           /\ nextPageID' = 0
           /\ pageIndex' = EmptyMap
           /\ pages' = EmptyMap
           /\ Len(file') >= HeaderSize
           /\ U32(file', 0) = MagicNumber
           /\ U32(file', 4) = Version
           /\ U32(file', 8) = PageSize
           /\ U32(file', 12) = 0
           /\ U32(file', 16) = 0]_vars

\* A store has just been opened on an empty file
C12_Witness ==
    /\ opened /\ ret.op = "NewStorage" /\ sessFresh
    /\ Len(file) = HeaderSize
    /\ budget = MaxCalls - 1

\* --------------------------------------------------------------------- C13
\* C13: a zero-length key and a zero-length value are stored like any other:
\* Put("", v) and Put(k, "") succeed, Get("") then returns v and Get(k) then
\* returns the empty value without error, which a key that is absent never
\* does.
C13_EmptyKeyAndValue ==
    /\ (opened /\ ret.op = "Put" /\ (ret.key = <<>> \/ ret.value = <<>>))
          => (ret.err = "nil" /\ GetReturns(ret.key, ret.value))
    /\ (opened /\ sessFresh /\ sessPutsOk)
          => \A k \in KeysE \ DOMAIN shadow : GetNow(k).err # "nil"

\* --------------------------------------------------------------------- C14
\* C14: Close writes every dirty cached page to the file, then the header
\* with the current totalPages and nextPageID, and closes the file last.
\* When a page write fails Close returns the error at once: the header is not
\* written, no page the loop had not yet reached is written, and the file is
\* not closed.  When the header write fails every page has been written and
\* the file is not closed.
\* The bytes of the file where the page lives; a byte past the end of the
\* file counts as 0, which is what it reads as once a later page is written
PageOnDisk(f, id) ==
    [i \in 1..PageSize |->
        IF pageOffset(id) + i <= Len(f) THEN f[pageOffset(id) + i] ELSE 0]
\* The bytes a write of the page puts there
Image(page) ==
    [i \in 1..Len(page.Data) |->
        IF i = 1 THEN page.RecordCount % 256
        ELSE IF i = 2 THEN page.RecordCount \div 256 ELSE page.Data[i]]
HeaderOnDisk(f) == SubSeq(f, 1, HeaderSize)
HeaderHolds(f, total, nextId) ==
    /\ Len(f) >= HeaderSize
    /\ U32(f, 0) = MagicNumber /\ U32(f, 4) = Version /\ U32(f, 8) = PageSize
    /\ U32(f, 12) = total /\ U32(f, 16) = nextId
AllWritten(pgs, f) ==
    \A id \in DOMAIN pgs : pgs[id].IsDirty => PageOnDisk(f, id) = Image(pgs[id])

C14_CloseFlushesThenHeader ==
    [][(opened /\ Called("Close"))
        => /\ ret'.err = "nil"
                => /\ AllWritten(pages, file')
                   /\ HeaderHolds(file', totalPages, nextPageID)
                   /\ ~opened'
           /\ ret'.err \in {"page write", "page sync"}
                => /\ HeaderOnDisk(file') = HeaderOnDisk(file)
                   /\ opened'
                   /\ \A i \in DOMAIN ret'.order :
                         LET id == ret'.order[i]
                         IN  /\ (i < ret'.failAt /\ pages[id].IsDirty)
                                   => PageOnDisk(file', id) = Image(pages[id])
                             /\ (i > ret'.failAt \/ ~pages[id].IsDirty)
                                   => /\ PageOnDisk(file', id) = PageOnDisk(file, id)
                                      /\ pages'[id] = pages[id]
           /\ ret'.err \in {"header write", "header sync"}
                => /\ AllWritten(pages, file')
                   /\ opened'
           /\ ret'.err = "header write" => HeaderOnDisk(file') = HeaderOnDisk(file)]_vars

\* Close has just returned the error of the first page write with a second
\* dirty page left unwritten
C14_Witness ==
    /\ opened /\ ret.op = "Close" /\ ret.err = "page write"
    /\ ret.failAt = 1 /\ Len(ret.order) = 2
    /\ pages[ret.order[1]].IsDirty /\ pages[ret.order[2]].IsDirty
    /\ PageOnDisk(file, ret.order[2]) # Image(pages[ret.order[2]])

\* --------------------------------------------------------------------- C15
\* C15: every Put and every Delete that changes the page cache or the index
\* has first appended a matching entry to the log and synced it: after the
\* call the last entry appended to the log is the call's, and it is synced.
LastLogged(typ, key, value) ==
    /\ walAppended # <<>>
    /\ walAppended[Len(walAppended)].Type = typ
    /\ walAppended[Len(walAppended)].Key = key
    /\ walAppended[Len(walAppended)].Value = value
    /\ walSynced

C15_MutationsAreLoggedFirst ==
    (opened /\ ret.err = "nil")
        => /\ ret.op = "Put" => LastLogged(LogTypePut, ret.key, ret.value)
           /\ ret.op = "Delete" => LastLogged(LogTypeDelete, ret.key, <<>>)

\* --------------------------------------------------------------------- C16
\* C16: NewStorage replays the log and truncates it, so that when the
\* process ends without Close and the file is opened again, every key whose
\* last successful call of the session was a Put has the value put, every
\* key whose last successful call was a Delete is absent, and the log is
\* empty.
C16_ReopenAfterCrashReplaysLog ==
    [][(~opened /\ ret.op = "Crash" /\ sessPutsOk /\ Called("NewStorage"))
        => /\ opened'
           /\ \A k \in DOMAIN shadow :
                 GetNext(k).err = "nil" /\ GetNext(k).val = shadow[k]
           /\ \A k \in gone : GetNext(k).err # "nil"
           /\ walFile' = <<>>]_vars

\* The step is the call op on the log (a NewWAL, Append, Sync, Close or
\* Truncate)
WalCalled(op) == budget' = budget - 1 /\ walRet'.op = op

\* --------------------------------------------------------------------- C17
\* C17: when n Appends, all successful, and a Sync have been made on a log
\* that was empty, ReadAll (in the same session, and after Close and NewWAL)
\* returns without error exactly n entries, oldest first, with the LSN, type,
\* key and value of the Appends.
C17_ReadAllReturnsAppended ==
    (walOpen /\ walRet.op = "ReadAll" /\ walClean /\ walSynced)
        => /\ walRet.err = "nil"
           /\ Len(walRet.entries) = Len(walAppended)
           /\ \A i \in DOMAIN walRet.entries :
                 /\ walRet.entries[i].LSN = walAppended[i].LSN
                 /\ walRet.entries[i].Type = walAppended[i].Type
                 /\ walRet.entries[i].Key = walAppended[i].Key
                 /\ walRet.entries[i].Value = walAppended[i].Value

\* --------------------------------------------------------------------- C18
\* C18: in a session of the log that began on an empty file, or since its
\* last Truncate, the N-th of N successful Appends in a row returns the LSN
\* N, and the entry it wrote to the file begins with that LSN.
C18_AppendCountsFromOne ==
    [][(walOpen /\ WalCalled("Append") /\ walRet'.err = "nil"
          /\ walSessBase = 0 /\ walClean)
        => /\ walRet'.lsn = PutU64(Len(walAppended) + 1)
           /\ Len(walFile') >= Len(walFile) + 8
           /\ SubSeq(walFile', Len(walFile) + 1, Len(walFile) + 8) = walRet'.lsn]_vars

\* The third Append of a session that began on an empty log has returned 3,
\* and the second after a Truncate has returned 2
C18_Witness ==
    /\ walOpen /\ walRet.op = "Append" /\ walRet.err = "nil"
    /\ walSessBase = 0 /\ walClean
    /\ \/ Len(walAppended) = 3 /\ walRet.lsn = PutU64(3) /\ ~walReadable
       \/ Len(walAppended) = 2 /\ walRet.lsn = PutU64(2) /\ walReadable

\* --------------------------------------------------------------------- C19
\* C19: when entries have been appended and the log closed, NewWAL on the
\* same file sets the counter to the highest LSN in the file, and no Append
\* returns an LSN that an entry in the file already has.
RECURSIVE MaxLSN(_, _, _)
MaxLSN(entries, i, m) ==
    IF i > Len(entries) THEN m
    ELSE MaxLSN(entries, i + 1, IF GreaterU64(entries[i].LSN, m) THEN entries[i].LSN ELSE m)

C19_ReopenResumesNumbering ==
    [][walClean
        => /\ (~walOpen /\ WalCalled("NewWAL") /\ walAppended # <<>>)
                 => lastLSN' = MaxLSN(walAppended, 1, Zeros(8))
           /\ (walOpen /\ WalCalled("Append") /\ walRet'.err = "nil")
                 => \A i \in DOMAIN walAppended : walAppended[i].LSN # walRet'.lsn]_vars

\* --------------------------------------------------------------------- C20
\* C20: when one bit of an entry of the file is flipped anywhere before the
\* entry's checksum field, ReadAll returns neither that entry nor any entry
\* behind it: what it returns are the entries in front of it, in order.  A
\* file with no bit flipped is returned whole.
\* The entry whose bytes include the offset
EntryAt(at) ==
    CHOOSE i \in DOMAIN walAppended :
        walAppended[i].off <= at /\ at < walAppended[i].off + walAppended[i].size
BeforeChecksum(at) ==
    at < walAppended[EntryAt(at)].off + walAppended[EntryAt(at)].size - 4
SameEntry(e, a) ==
    e.LSN = a.LSN /\ e.Type = a.Type /\ e.Key = a.Key /\ e.Value = a.Value

C20_FlippedEntryEndsTheRead ==
    [][walRet'.op = "ReadAll"
        => /\ walRet'.err = "nil"
           /\ \A j \in DOMAIN walRet'.entries :
                 j <= Len(walAppended) /\ SameEntry(walRet'.entries[j], walAppended[j])
           /\ walRet.op = "none" => Len(walRet'.entries) = Len(walAppended)
           /\ (walRet.op = "Flip" /\ BeforeChecksum(walRet.at))
                 => Len(walRet'.entries) < EntryAt(walRet.at)]_vars

\* ReadAll has returned the first entry of a file of two entries whose second
\* entry has a flipped bit
C20_Witness ==
    /\ walRet.op = "ReadAll" /\ walRet.err = "nil"
    /\ Len(walAppended) = 2 /\ Len(walRet.entries) = 1
    /\ SameEntry(walRet.entries[1], walAppended[1])
    /\ walFile # <<>>

\* --------------------------------------------------------------------- C21
\* C21: a Truncate that returns no error leaves the log file empty and the
\* counter 0, whatever was appended before; the ReadAll that follows it
\* returns no error and no entry, the Append that follows it returns LSN 1;
\* and for the rest of the session Sync and ReadAll return no error and every
\* Append that the file takes returns the next LSN.
C21_TruncateResets ==
    [][/\ (walRet'.op = "Truncate" /\ walRet'.err = "nil")
            => walFile' = <<>> /\ lastLSN' = Zeros(8)
       /\ (walRet.op = "Truncate" /\ walRet'.op = "ReadAll")
            => walRet'.err = "nil" /\ walRet'.entries = <<>>
       /\ (walRet.op = "Truncate" /\ walRet'.op = "Append" /\ walRet'.err = "nil")
            => /\ walRet'.lsn = PutU64(1)
               /\ Len(walFile') > 0
       /\ (walReadable /\ walOpen /\ walRet'.op \in {"Sync", "ReadAll"})
            => walRet'.err = "nil"
       /\ (walReadable /\ walRet'.op = "Append" /\ walRet'.err = "nil")
            => walRet'.lsn = Inc64(lastLSN)]_vars

\* Truncate has emptied a log that held two appended entries
C21_Witness ==
    /\ walRet.op = "Truncate" /\ walRet.err = "nil"
    /\ walRet.dropped >= 2
    /\ walFile = <<>> /\ lastLSN = Zeros(8)

\* --------------------------------------------------------------------- C22
\* The pages of the store: a page of the cache, or else the page as loadPage
\* reads it from the file
StoredPages ==
    [id \in {x \in 0..(totalPages - 1) : ~loadPage(pages, file, x).err}
        |-> loadPage(pages, file, id).page]

\* C22: in every state of an open store the index has exactly one entry per
\* live key: a key is in the index if and only if a page holds a record with
\* that key, the index names that page, and no key has two records, in one
\* page or in two.
C22_IndexMatchesPages ==
    opened =>
        \A k \in AllKeys :
            /\ k \in DOMAIN pageIndex <=> PlacesIn(StoredPages, k) # {}
            /\ Cardinality(PlacesIn(StoredPages, k)) <= 1
            /\ \A pl \in PlacesIn(StoredPages, k) : pageIndex[k] = pl[1]

\* --------------------------------------------------------------------- C23
\* C23: when the process ends during a session, at any point of Close or
\* between calls, and the file is opened again, the store opens and its
\* contents are contents it has had at some point of its history of Puts and
\* Deletes.
C23_CrashLeavesAPastState ==
    [][(ret.op = "Crash" /\ hist # {} /\ Called("NewStorage"))
        => /\ ret'.err = "nil"
           /\ Contents(pageIndex', pages', file') \in hist]_vars

\* --------------------------------------------------------------------- C24
\* C24: every cached page whose dirty flag is false has the record count and
\* the bytes that the file holds for it; a page that a Put or a Delete has
\* allocated or whose records it has changed is dirty; and a page whose write
\* or sync has returned an error is still dirty.
C24_CleanPageIsOnDisk ==
    [][/\ \A id \in DOMAIN pages' :
             ~pages'[id].IsDirty => PageOnDisk(file', id) = Image(pages'[id])
       /\ (Called("Put") \/ Called("Delete"))
             => \A id \in DOMAIN pages' :
                   (id \notin DOMAIN pages \/ RecordsOf(pages'[id]) # RecordsOf(pages[id]))
                      => pages'[id].IsDirty
       /\ (Called("Close") /\ ret'.err \in {"page write", "page sync"})
             => pages'[ret'.order[ret'.failAt]].IsDirty]_vars

\* --------------------------------------------------------------------- C25
\* C25: between the calls on an open store the header in the file holds the
\* totalPages and the nextPageId of the store: a Put that has allocated a page
\* has written the header with the new counters before it returns.
C25_HeaderHoldsTheCounters ==
    opened => HeaderHolds(file, totalPages, nextPageID)

\* --------------------------------------------------------------------- C26
\* The number of whole pages in the file behind the header
PagesInFile(f) == (Len(f) - HeaderSize) \div PageSize

\* C26: in every state totalPages, of the open store and in the header of the
\* file of a closed one, is the number of pages that are in the file behind
\* the 64 bytes of the header, and the file ends with the last of them.
C26_TotalPagesAreInTheFile ==
    /\ opened
          => /\ PagesInFile(file) = totalPages
             /\ Len(file) = HeaderSize + totalPages * PageSize
    /\ (~opened /\ Len(file) >= HeaderSize)
          => /\ PagesInFile(file) = U32(file, 12)
             /\ Len(file) = HeaderSize + U32(file, 12) * PageSize

\* --------------------------------------------------------------------- C27
\* C27: when a Put of a key the index does not hold returns an error because
\* the record does not fit an empty page, totalPages, nextPageId, the cache
\* and the index are as before the call.
C27_FailedPutAllocatesNothing ==
    [][(opened /\ Called("Put") /\ ret'.err # "nil"
          /\ ret'.key \notin DOMAIN pageIndex
          /\ ~FitsEmptyPage(ret'.key, ret'.value))
        => /\ totalPages' = totalPages
           /\ nextPageID' = nextPageID
           /\ pages' = pages
           /\ pageIndex' = pageIndex]_vars

\* --------------------------------------------------------------------- C28
\* The sequence without its element number i
Without(seq, i) == SubSeq(seq, 1, i - 1) \o SubSeq(seq, i + 1, Len(seq))

\* The page of the key before the call, as Delete loads it
PageOfKey(key) == loadPage(pages, file, pageIndex[key]).page

\* C28: a Delete(k) that returns no error removes one record of k, the first,
\* from the page the index names: the record count of the page goes down by
\* one, its other records keep their keys, values and order and lie back to
\* back from offset 2, the page is dirty, k is no longer in the index, and no
\* other page and no other index entry changes.
C28_DeleteRemovesOneRecord ==
    [][(opened /\ Called("Delete") /\ ret'.err = "nil")
        => /\ ret'.key \in DOMAIN pageIndex
           /\ LET id == pageIndex[ret'.key]
                  before == PageOfKey(ret'.key)
                  at == CHOOSE i \in Holds(before, ret'.key) :
                           \A j \in Holds(before, ret'.key) : i <= j
              IN  /\ Holds(before, ret'.key) # {}
                  /\ Len(RecordsOf(before)) = before.RecordCount
                  /\ pages'[id].RecordCount = before.RecordCount - 1
                  /\ Len(RecordsOf(pages'[id])) = pages'[id].RecordCount
                  /\ RecordsOf(pages'[id]) = Without(RecordsOf(before), at)
                  /\ pages'[id].IsDirty
                  /\ DOMAIN pages' = DOMAIN pages \cup {id}
                  /\ \A other \in DOMAIN pages \ {id} : pages'[other] = pages[other]
           /\ pageIndex' = MapDel(pageIndex, ret'.key)
           /\ totalPages' = totalPages /\ nextPageID' = nextPageID
           /\ file' = file]_vars

\* Delete has removed the first of the two records that page 0 has in the
\* file: the cache holds the second alone
C28_Witness ==
    /\ opened /\ ret.op = "Delete" /\ ret.err = "nil"
    /\ budget = MaxCalls - 6
    /\ 0 \in DOMAIN pages
    /\ LET disk == [ID |-> 0, Data |-> PageOnDisk(file, 0), IsDirty |-> FALSE,
                    RecordCount |-> U16(PageOnDisk(file, 0), 0)]
       IN  /\ Len(RecordsOf(disk)) = 2
           /\ RecordsOf(disk)[1].key = ret.key
           /\ RecordsOf(pages[0]) = <<RecordsOf(disk)[2]>>

\* --------------------------------------------------------------------- C29
\* The bytes of the records i.. of the sequence, each with its 4-byte header
RECURSIVE RecordBytes(_, _)
RecordBytes(recs, i) ==
    IF i > Len(recs) THEN 0
    ELSE 4 + Len(recs[i].key) + Len(recs[i].value) + RecordBytes(recs, i + 1)

\* The free space of a page: the page size minus 2 minus the bytes of its
\* records
FreeSpace(page) == PageSize - 2 - RecordBytes(RecordsOf(page), 1)

\* The existing pages with room for a record of the size
Fitting(size) == {id \in DOMAIN StoredPages : FreeSpace(StoredPages[id]) >= size}

\* C29: Put of a key the index does not hold puts the record into the
\* lowest-numbered existing page whose free space is at least
\* 4 + len(key) + len(value) and allocates nothing; when no existing page has
\* that much space it allocates one page, whose id is the totalPages of
\* before, and the record, if the Put succeeds, is in that page.
C29_FirstFit ==
    [][(opened /\ Called("Put") /\ ret'.key \notin DOMAIN pageIndex)
        => LET fit == Fitting(4 + Len(ret'.key) + Len(ret'.value))
               low == CHOOSE id \in fit : \A other \in fit : id <= other
           IN  IF fit # {}
               THEN /\ ret'.err = "nil"
                    /\ pageIndex'[ret'.key] = low
                    /\ RecordsOf(pages'[low])
                          = Append(RecordsOf(StoredPages[low]),
                                   [key |-> ret'.key, value |-> ret'.value])
                    /\ \A id \in DOMAIN pages' \ {low} :
                          RecordsOf(pages'[id]) = RecordsOf(StoredPages[id])
                    /\ totalPages' = totalPages /\ nextPageID' = nextPageID
                    /\ DOMAIN pages' = DOMAIN StoredPages
               ELSE /\ totalPages' = totalPages + 1 /\ nextPageID' = nextPageID + 1
                    /\ DOMAIN pages' = DOMAIN StoredPages \cup {totalPages}
                    /\ pages'[totalPages].ID = totalPages
                    /\ ret'.err = "nil"
                          => /\ pageIndex'[ret'.key] = totalPages
                             /\ RecordsOf(pages'[totalPages])
                                   = <<[key |-> ret'.key, value |-> ret'.value]>>]_vars

\* Put has placed a new key in page 0 although page 1 has room for it too
C29_Witness ==
    /\ opened /\ ret.op = "Put" /\ ret.err = "nil"
    /\ totalPages = 2
    /\ pageIndex[ret.key] = 0
    /\ RecordsOf(pages[0]) = <<[key |-> ret.key, value |-> ret.value]>>
    /\ FreeSpace(pages[1]) >= 4 + Len(ret.key) + Len(ret.value)

\* --------------------------------------------------------------------- C30
\* C30: in every state every cached page has a buffer of the page size, and
\* 2 plus the bytes of its RecordCount records, each with its 4-byte header,
\* is at most the page size: every record lies inside the buffer.
C30_RecordsFitThePage ==
    \A id \in DOMAIN pages :
        /\ Len(pages[id].Data) = PageSize
        /\ Len(RecordsOf(pages[id])) = pages[id].RecordCount
        /\ 2 + RecordBytes(RecordsOf(pages[id]), 1) <= PageSize

\* Put has returned "page full" for a record that an empty page can take, on
\* a page that holds a record and has less room than the record needs
C30_Witness ==
    /\ opened /\ ret.op = "Put" /\ ret.err = "page full"
    /\ FitsEmptyPage(ret.key, ret.value)
    /\ ret.key \in DOMAIN pageIndex
    /\ pages[pageIndex[ret.key]].RecordCount >= 1
    /\ FreeSpace(pages[pageIndex[ret.key]]) < 4 + Len(ret.key) + Len(ret.value)

\* --------------------------------------------------------------------- C31
\* The index with the keys of the records i.. added, each for the page
RECURSIVE WithKeys(_, _, _, _)
WithKeys(idx, recs, i, pageID) ==
    IF i > Len(recs) THEN idx
    ELSE WithKeys(MapPut(idx, recs[i].key, pageID), recs, i + 1, pageID)

\* The page of the file as the file format lays it out
FilePage(f, pageID) ==
    LET data == Slice(f, pageOffset(pageID), pageOffset(pageID) + PageSize)
    IN  [ID |-> pageID, Data |-> data, IsDirty |-> FALSE, RecordCount |-> U16(data, 0)]

\* The index of the pages pageID.. of the file: of every page the records in
\* front of the first whose declared end is past the end of the page
RECURSIVE ValidIndex(_, _, _, _)
ValidIndex(idx, f, pageID, total) ==
    IF pageID >= total THEN idx
    ELSE ValidIndex(WithKeys(idx, RecordsOf(FilePage(f, pageID)), 1, pageID),
                    f, pageID + 1, total)

\* The pages of the file that declare more records than fit them
BadPages(f) ==
    {id \in 0..(U32(f, 12) - 1) :
        Len(RecordsOf(FilePage(f, id))) < FilePage(f, id).RecordCount}

\* C31: NewStorage on a file with a page in which a record's declared key and
\* value lengths run past the end of the page succeeds, and the index it
\* builds holds the keys of that page's records in front of the bad one, not
\* the key of the bad record or of a record behind it, and the keys of all
\* records of the other pages.
C31_BadRecordEndsThePage ==
    [][(Called("NewStorage") /\ BadPages(file) # {})
        => /\ ret'.err = "nil"
           /\ pageIndex' = ValidIndex(EmptyMap, file, 0, U32(file, 12))]_vars

\* --------------------------------------------------------------------- C32
\* HeaderSize + id * PageSize as a number of 8 bytes, nothing cut off
ExactOffset(id) == Widened(MulAdd(id, PageSize, HeaderSize, 1), 8)

\* a + k for a number of 8 bytes and a small k
Plus(a, k) == LowBytes(MulAdd(a, 1, k, 1), 8)

\* The byte ranges [a, a + PageSize) and [b, b + PageSize) share no byte
Disjoint(a, b) ==
    \/ ~GreaterU64(Plus(a, PageSize), b)
    \/ ~GreaterU64(Plus(b, PageSize), a)

\* C32: for every page id of the 32-bit range pageOffset(id) is
\* HeaderSize + id * pageSize with nothing cut off; the page then begins
\* behind the header, shares no byte with the page of another id, and the
\* page of the next id begins where it ends.
C32_PageOffsetDoesNotWrap ==
    ret.op = "pageOffset" =>
        /\ ret.offset = ExactOffset(ret.id)
        /\ ~GreaterU64(PutU64(HeaderSize), ret.offset)
        /\ \A other \in PageIDs \ {ret.id} : Disjoint(ret.offset, pageOffsetOf(other))
        /\ ret.id # <<255, 255, 255, 255>> =>
              pageOffsetOf(IncFrom(ret.id, 1)) = Plus(ret.offset, PageSize)

\* --------------------------------------------------------------------- C33
\* By the file format a complete, valid entry begins at the offset of the
\* file: its 12 header bytes and the entrySize bytes it declares are in the
\* file, the declared size is that of its fields, and its last 4 bytes are
\* the CRC-32 of the bytes before them.
ValidEntryAt(f, off) ==
    /\ off + 12 <= Len(f)
    /\ LET size == IntOfU32(Slice(f, off + 8, off + 12))
       IN  /\ size >= 21
           /\ off + size <= Len(f)
           /\ size = 21 + U16(f, off + 13) + U16(f, off + 15)
           /\ ChecksumIEEE(Slice(f, off, off + size - 4))
                 = Slice(f, off + size - 4, off + size)

\* The fields of the entry that begins at the offset
FieldsAt(f, off) ==
    LET keyLen == U16(f, off + 13)
        valueLen == U16(f, off + 15)
    IN  [LSN |-> Slice(f, off, off + 8),
         EntrySize |-> Slice(f, off + 8, off + 12),
         Type |-> f[off + 13],
         KeyLen |-> keyLen,
         ValueLen |-> valueLen,
         Key |-> Slice(f, off + 17, off + 17 + keyLen),
         Value |-> Slice(f, off + 17 + keyLen, off + 17 + keyLen + valueLen),
         Checksum |-> Slice(f, off + 17 + keyLen + valueLen,
                            off + 21 + keyLen + valueLen)]

\* The entries of the file from the offset on, up to the first place where
\* no complete valid entry begins
RECURSIVE ValidPrefix(_, _)
ValidPrefix(f, off) ==
    IF ~ValidEntryAt(f, off) THEN <<>>
    ELSE <<FieldsAt(f, off)>>
           \o ValidPrefix(f, off + IntOfU32(Slice(f, off + 8, off + 12)))

\* C33: ReadAll returns no error and the longest prefix of the file's
\* entries that are all complete and valid, whatever follows that prefix (an
\* incomplete entry at the end of the file, or a corrupt entry).
C33_ReadAllReturnsTheValidPrefix ==
    walRet.op = "ReadAll"
        => /\ walRet.err = "nil"
           /\ walRet.entries = ValidPrefix(walFile, 0)

\* --------------------------------------------------------------------- C34
\* The bytes in the file of the entry that the latest successful Append wrote
LastWritten(f, appended) ==
    Slice(f, appended[Len(appended)].off,
          appended[Len(appended)].off + appended[Len(appended)].size)

\* C34: when Append has returned without error, the last 4 bytes of the
\* entry it wrote to the file are the CRC-32 of all the bytes of the entry
\* before them, and the entry deserialized from those bytes passes
\* ValidateChecksum.
C34_AppendWritesTheChecksum ==
    [][(WalCalled("Append") /\ walRet'.err = "nil")
        => LET bytes == LastWritten(walFile', walAppended')
           IN  /\ Slice(bytes, Len(bytes) - 4, Len(bytes))
                     = ChecksumIEEE(Slice(bytes, 0, Len(bytes) - 4))
               /\ Deserialize(bytes).err = "nil"
               /\ ValidateChecksum(Deserialize(bytes).entry)]_vars

\* --------------------------------------------------------------------- C35
\* C35: when Append has returned without error, the entrySize field of the
\* entry it wrote to the file (bytes 8..11 of the entry) is the length of the
\* entry, 21 + len(key) + len(value); the entry begins where the entry
\* before it ends by its entrySize field, and ends at the end of the file.
C35_AppendWritesTheEntrySize ==
    [][(WalCalled("Append") /\ walRet'.err = "nil")
        => LET n == Len(walAppended')
               a == walAppended'[n]
               bytes == LastWritten(walFile', walAppended')
           IN  /\ Len(bytes) = 21 + Len(a.Key) + Len(a.Value)
               /\ Slice(bytes, 8, 12) = PutU32(21 + Len(a.Key) + Len(a.Value))
               /\ a.off + IntOfU32(Slice(bytes, 8, 12)) = Len(walFile')
               /\ (n > 1 /\ walClean) =>
                     a.off = walAppended'[n - 1].off
                               + IntOfU32(Slice(walFile', walAppended'[n - 1].off + 8,
                                                walAppended'[n - 1].off + 12))]_vars

C37_FailedAppendKeepsTheLSN ==
    [][WalCalled("Append")
        => /\ walRet'.err # "nil" => lastLSN' = lastLSN
           /\ (walRet'.err = "nil" /\ Len(walAppended) > walSessBase)
                 => walRet'.lsn = Inc64(walAppended[Len(walAppended)].LSN)]_vars

\* --------------------------------------------------------------------- C38
\* C38: Put(k, v) in a state in which Get(k) returns v returns no error and
\* leaves the contents of the store as they were, with one record of k in
\* the pages; Delete(k) in a state in which Get(k) finds no value leaves the
\* contents as they were.
C38_ReapplyChangesNothing ==
    [][/\ (Called("Put") /\ GetReturns(ret'.key, ret'.value))
            => /\ ret'.err = "nil"
               /\ Contents(pageIndex', pages', file') = Contents(pageIndex, pages, file)
               /\ Cardinality(PlacesIn(pages', ret'.key)) = 1
       /\ (Called("Delete") /\ GetFails(ret'.key))
            => Contents(pageIndex', pages', file') = Contents(pageIndex, pages, file)
      ]_vars

\* --------------------------------------------------------------------- C39
\* The key or the value is longer than a 16-bit length field can tell
TooLong(key, value) == Len(key) > 65535 \/ Len(value) > 65535

\* C39: Put and Append return an error for a key or a value of more than
\* 65535 bytes, and the keyLen and valueLen fields of every entry that Append
\* writes to the log are the lengths of the key and of the value that follow
\* them.
C39_LongInputIsRejected ==
    [][/\ (Called("Put") /\ TooLong(ret'.key, ret'.value)) => ret'.err # "nil"
       /\ (WalCalled("Append") /\ walRet'.err = "nil")
            => LET a == walAppended'[Len(walAppended')]
                   bytes == LastWritten(walFile', walAppended')
               IN  /\ ~TooLong(a.Key, a.Value)
                   /\ U16(bytes, 13) = Len(a.Key)
                   /\ U16(bytes, 15) = Len(a.Value)
      ]_vars
====
